---- MODULE Spec2Model ----
(***************************************************************************)
(* RAD synthesizer field analysis scripts (audit-rad): the markdown        *)
(* section splitter, the regex field extraction, the two normalization     *)
(* stages, the keyword categorizers and the aggregate reports, modelled    *)
(* over character strings.                                                 *)
(***************************************************************************)
EXTENDS Integers, Sequences, FiniteSets, TLC

\* ------------------------------------------------------------------ bounds
\* How many times in a row a normalizer is applied to its own result.
MaxApply == 2

\* How many header blocks a markdown file has at most.
MaxHeaders == 2

\* How many literals the list of an entityPick call has at most.
MaxItems == 2

\* How many sections the analyzed file has at most.
MaxSections == 2

\* ----------------------------------------------------- Python str primitives
SetMin(S) == CHOOSE x \in S : \A y \in S : x <= y
SetMax(S) == CHOOSE x \in S : \A y \in S : x >= y

\* s[i] (1-based) as a one-character string.
Char(s, i) == SubSeq(s, i, i)

\* Python s[a:b] for 0 <= a.
Slice(s, a, b) == SubSeq(s, a + 1, b)

\* Python s[a:].
SliceFrom(s, a) == SubSeq(s, a + 1, Len(s))

\* The characters str.strip() removes, and the regex class \s.
Whitespace == {" ", "\n", "\t", "\r"}

\* The grave accent, which a TLA+ string literal cannot hold, is written "~" throughout.
Backtick == "~"

\* The three quote characters given to .strip(...) after the whitespace strip.
QuoteChars == {"\"", "'", Backtick}

\* s.strip(chars): leading and trailing characters of the set removed.
strip(s, chars) ==
  LET keep == {i \in 1..Len(s) : Char(s, i) \notin chars}
  IN  IF keep = {} THEN "" ELSE SubSeq(s, SetMin(keep), SetMax(keep))

\* s.startswith(p)
startswith(s, p) == Len(p) <= Len(s) /\ SubSeq(s, 1, Len(p)) = p

\* s.find(sub, start): 0-based index of the first occurrence at or after start, else -1.
find(s, sub, start) ==
  LET hits == {i \in start..(Len(s) - Len(sub)) : SubSeq(s, i + 1, i + Len(sub)) = sub}
  IN  IF hits = {} THEN -1 ELSE SetMin(hits)

\* sub in s
contains(s, sub) == find(s, sub, 0) # -1

\* s.replace(old, new, 1): the first occurrence replaced.
replace_first(s, old, new) ==
  LET i == find(s, old, 0)
  IN  IF i = -1 THEN s ELSE Slice(s, 0, i) \o new \o SliceFrom(s, i + Len(old))

\* ------------------------------------------- stage 2: normalize_field_deeply
\* A table whose entry for 'wsbvnext.accountId' names another raw key instead of
\* the canonical path.
deep_mappings_account_identity_chained ==
  << <<"accountId", "account.id">>,
     <<"wsbvnext.accountId", "accountId">>,
     <<"mktgasst.accountId", "account.id">>,
     <<"vnextAccount.shopperId", "account.shopperId">> >>

\* deep_mappings, group 'Account/Identity'
deep_mappings_account_identity ==
  << <<"accountId", "account.id">>,
     <<"wsbvnext.accountId", "account.id">>,
     <<"mktgasst.accountId", "account.id">>,
     <<"vnextAccount.shopperId", "account.shopperId">> >>

\* deep_mappings, group 'Entity IDs'
deep_mappings_entity_ids ==
  << <<"id", "entity.id">>,
     <<"wsbvnext.id", "entity.id">>,
     <<"mktgasst.id", "entity.id">> >>

\* deep_mappings, group 'Entity Types'
deep_mappings_entity_types ==
  << <<"type", "entity.type">>,
     <<"wsbvnext.type", "entity.type">>,
     <<"mktgasst.type", "entity.type">> >>

\* deep_mappings, group 'Billing/Payment'
deep_mappings_billing_payment ==
  << <<"vnextAccount.billing.commitment", "billing.commitment">>,
     <<"vnextAccount.billing.termType", "billing.termType">>,
     <<"vnextAccount.billing.autoRenew", "billing.autoRenew">>,
     <<"vnextAccount.account.paymentStatus", "billing.paymentStatus">>,
     <<"account.paymentStatus", "billing.paymentStatus">> >>

\* deep_mappings, group 'Features/Configuration'
deep_mappings_features_configuration ==
  << <<"features.websiteType", "website.type">>,
     <<"features.published", "website.isPublished">>,
     <<"features.widgets", "website.widgets">>,
     <<"features.planType", "account.planType">>,
     <<"features.userAddedLogo", "website.hasCustomLogo">>,
     <<"features.externalDomainName", "website.customDomain">> >>

\* deep_mappings, group 'Entitlements'
deep_mappings_entitlements ==
  << <<"entitlementData", "entitlements.all">>,
     <<"entitlementData.current", "entitlements.current">>,
     <<"entitlementData.current.commerce", "entitlements.commerce">>,
     <<"entitlementData.current.blog", "entitlements.blog">>,
     <<"entitlementData.current.appointments", "entitlements.appointments">>,
     <<"entitlementData.current.conversations", "entitlements.conversations">>,
     <<"entitlementData.current[\"conversations.lite\"]", "entitlements.conversationsLite">>,
     <<"entitlementData.transitionable", "entitlements.available">>,
     <<"entitlementData.used", "entitlements.used">> >>

\* deep_mappings, group 'Social Media'
deep_mappings_social_media ==
  << <<"gem.subscriberCount", "email.subscriberCount">>,
     <<"gem.hasSent", "email.hasSentCampaign">>,
     <<"gem.lastFbPostDate", "social.lastFacebookPost">>,
     <<"gem.lastIgPostDate", "social.lastInstagramPost">>,
     <<"features.facebook.pageId", "social.facebookPageId">>,
     <<"features.facebook.isConnected", "social.facebookConnected">>,
     <<"features.instagram.isConnected", "social.instagramConnected">>,
     <<"features.gmb.hasGMBPublished", "social.googleBusinessPublished">>,
     <<"features.gmb.hasGMBStarted", "social.googleBusinessStarted">>,
     <<"features.gmb.hasGMBLocation", "social.googleBusinessLocation">>,
     <<"features.yelp.hasYelpPublished", "social.yelpPublished">>,
     <<"features.yelp.hasCompletedYelpFlow", "social.yelpCompleted">> >>

\* deep_mappings, group 'Commerce/Products'
deep_mappings_commerce_products ==
  << <<"ols.products.count", "commerce.productCount">>,
     <<"ols.setup_status", "commerce.setupStatus">>,
     <<"ols.store_status", "commerce.storeStatus">>,
     <<"ols.marketplace_data", "commerce.marketplaces">>,
     <<"ols.featured_products_with_images", "commerce.featuredProducts">>,
     <<"ols.payment_methods.available", "commerce.paymentMethods">>,
     <<"ols.features_enabled.product_reviews", "commerce.productReviewsEnabled">>,
     <<"ols.features_enabled.abandoned_cart", "commerce.abandonedCartEnabled">> >>

\* deep_mappings, group 'Appointments'
deep_mappings_appointments ==
  << <<"ola.service.total", "appointments.serviceCount">>,
     <<"ola.account.status", "appointments.accountStatus">>,
     <<"ola.online_payment.status", "appointments.paymentStatus">>,
     <<"ola.calendar_sync.status", "appointments.calendarSyncStatus">>,
     <<"ola.facebook_booking.status", "appointments.facebookBookingStatus">>,
     <<"ola.notifications.c1_sms", "appointments.smsNotifications">>,
     <<"ola.account.has_business_address", "appointments.hasBusinessAddress">> >>

\* deep_mappings, group 'Other data'
deep_mappings_other_data ==
  << <<"customerIntentions", "customer.intentions">>,
     <<"wsbvnext.customerIntentions", "customer.intentions">>,
     <<"blog", "content.blogPosts">>,
     <<"contacts", "customer.contacts">>,
     <<"domainName", "website.domainName">>,
     <<"links.addSubscribers", "links.emailSubscribers">>,
     <<"links.composeCampaign", "links.emailCampaign">>,
     <<"links.blog", "links.blog">>,
     <<"links.editorDirect", "links.websiteEditor">>,
     <<"links.preview", "links.websitePreview">> >>

\* deep_mappings, group 'Request context'
deep_mappings_request_context ==
  << <<"request.query.ventureId", "context.ventureId">>,
     <<"request.query.appLocation", "context.appLocation">>,
     <<"vnextAccount.ventureId", "context.ventureId">> >>

\* The whole table, in the insertion order the dict literal gives it.
deep_mappings ==
  deep_mappings_account_identity
  \o deep_mappings_entity_ids
  \o deep_mappings_entity_types
  \o deep_mappings_billing_payment
  \o deep_mappings_features_configuration
  \o deep_mappings_entitlements
  \o deep_mappings_social_media
  \o deep_mappings_commerce_products
  \o deep_mappings_appointments
  \o deep_mappings_other_data
  \o deep_mappings_request_context

\* The loop 'for original, normalized in deep_mappings.items(): if field == original':
\* the index of the first entry whose key equals the field, 0 when there is none.
deep_match(field) ==
  LET hits == {i \in 1..Len(deep_mappings) : deep_mappings[i][1] = field}
  IN  IF hits = {} THEN 0 ELSE SetMin(hits)

\* The fallback after the table: one hardcoded namespace prefix removed.
basic_normalization(field) ==
  IF startswith(field, "features.") THEN "website." \o SliceFrom(field, 9)
  ELSE IF startswith(field, "vnextAccount.") THEN SliceFrom(field, 13)
  ELSE IF startswith(field, "wsbvnext.") THEN SliceFrom(field, 9)
  ELSE IF startswith(field, "mktgasst.") THEN SliceFrom(field, 9)
  ELSE field

\* The prefix strip tried before the table.
normalize_field_deeply_prefix_first(raw) ==
  LET field == strip(strip(raw, Whitespace), QuoteChars)
      basic == basic_normalization(field)
  IN  IF basic # field THEN basic
      ELSE IF deep_match(field) # 0 THEN deep_mappings[deep_match(field)][2]
      ELSE field

normalize_field_deeply(raw) ==
  LET field == strip(strip(raw, Whitespace), QuoteChars)
      i == deep_match(field)
  IN  IF i # 0 THEN deep_mappings[i][2] ELSE basic_normalization(field)

\* --------------------------------------------- stage 1: normalize_field_path
normalizations ==
  << <<"entitlementData.current", "entitlements.current">>,
     <<"entitlementData.used", "entitlements.used">>,
     <<"entitlementData.transitionable", "entitlements.transitionable">>,
     <<"vnextAccount.billing", "billing">>,
     <<"vnextAccount.account", "account">>,
     <<"features.websiteType", "websiteType">>,
     <<"gem.subscriberCount", "email.subscriberCount">>,
     <<"gem.hasSent", "email.hasSent">>,
     <<"gem.lastFbPostDate", "social.lastFacebookPost">>,
     <<"gem.lastIgPostDate", "social.lastInstagramPost">>,
     <<"ols.products.count", "commerce.productCount">>,
     <<"ola.service.total", "appointments.serviceCount">>,
     <<"ola.account.status", "appointments.status">> >>

\* The loop 'for old, new in normalizations.items(): if field.startswith(old)':
\* the index of the first entry whose key is a prefix of the field, 0 when none is.
normalizations_match(field) ==
  LET hits == {i \in 1..Len(normalizations) : startswith(field, normalizations[i][1])}
  IN  IF hits = {} THEN 0 ELSE SetMin(hits)

\* The value normalize_field_path returns.
normalize_field_path(raw) ==
  LET field == strip(strip(raw, Whitespace), QuoteChars)
      i == normalizations_match(field)
  IN  IF i = 0 THEN field
      ELSE replace_first(field, normalizations[i][1], normalizations[i][2])

\* The argument filed as it was passed, its quotes and padding kept.
normalize_field_path_variations_unstripped(fv, raw) ==
  LET field == strip(strip(raw, Whitespace), QuoteChars)
      i == normalizations_match(field)
      new == normalizations[i][2]
  IN  IF i = 0 THEN fv
      ELSE [k \in DOMAIN fv \cup {new} |->
              IF k = new
              THEN (IF k \in DOMAIN fv THEN fv[k] ELSE {}) \cup {raw}
              ELSE fv[k]]

\* self.field_variations after normalize_field_path(raw), given it was fv before
\* (a defaultdict(set): a function whose domain is the keys touched so far).
normalize_field_path_variations(fv, raw) ==
  LET field == strip(strip(raw, Whitespace), QuoteChars)
      i == normalizations_match(field)
      new == normalizations[i][2]
  IN  IF i = 0 THEN fv
      ELSE [k \in DOMAIN fv \cup {new} |->
              IF k = new
              THEN (IF k \in DOMAIN fv THEN fv[k] ELSE {}) \cup {field}
              ELSE fv[k]]

\* ------------------------------------------------- markdown section splitting
\* s.split(sep): the pieces between the non-overlapping occurrences of sep, left to right.
RECURSIVE split(_, _)
split(s, sep) ==
  LET i == find(s, sep, 0)
  IN  IF i = -1 THEN <<s>>
      ELSE <<Slice(s, 0, i)>> \o split(SliceFrom(s, i + Len(sep)), sep)

\* The opening fence both parsers look for, and the fence that closes it.
FenceOpen == Backtick \o Backtick \o Backtick \o "javascript"
FenceClose == Backtick \o Backtick \o Backtick

\* The code block of one section: from 13 characters after the first opening fence
\* to the next triple grave accent after it; absent when either find gives -1.
code_block(section) ==
  LET code_start == find(section, FenceOpen, 0)
      code_end == find(section, FenceClose, code_start + 1)
  IN  IF code_start # -1 /\ code_end # -1
      THEN [found |-> TRUE, code |-> strip(Slice(section, code_start + 13, code_end), Whitespace)]
      ELSE [found |-> FALSE, code |-> ""]

\* The loop body of parse_rad_file over sections[1:].
RECURSIVE parse_rad_sections(_)
parse_rad_sections(sections) ==
  IF Len(sections) = 0 THEN <<>>
  ELSE LET section == Head(sections)
           lines == split(strip(section, Whitespace), "\n")
           name == strip(lines[1], Whitespace)
           block == code_block(section)
       IN  (IF block.found THEN << <<name, block.code>> >> ELSE <<>>)
           \o parse_rad_sections(Tail(sections))

\* RADFieldAnalyzer.parse_rad_file on the text of the file: the first piece of the
\* split (the text before the first header) is skipped.
parse_rad_file(content) == parse_rad_sections(Tail(split(content, "## ")))

\* text.split(/##\s+/): a match is ## followed by its whole run of whitespace.
RECURSIVE js_split_headers(_)
js_split_headers(text) ==
  LET hits == {i \in 0..(Len(text) - 3) :
                 Slice(text, i, i + 2) = "##" /\ Char(text, i + 3) \in Whitespace}
  IN  IF hits = {} THEN <<text>>
      ELSE LET i == SetMin(hits)
               after == {j \in (i + 3)..Len(text) : Char(text, j) \notin Whitespace}
               end == IF after = {} THEN Len(text) ELSE SetMin(after) - 1
           IN  <<Slice(text, 0, i)>> \o js_split_headers(SliceFrom(text, end))

\* lines[0].match(/^([^\s]+)/): the leading run of non-whitespace, "" when there is none.
first_token(line) ==
  LET ws == {j \in 1..Len(line) : Char(line, j) \in Whitespace}
  IN  IF ws = {} THEN line ELSE SubSeq(line, 1, SetMin(ws) - 1)

\* The forEach body of parseSynthesizers, over every piece of the split.
RECURSIVE js_parse_sections(_)
js_parse_sections(sections) ==
  IF Len(sections) = 0 THEN <<>>
  ELSE LET section == Head(sections)
           lines == split(strip(section, Whitespace), "\n")
           name == first_token(lines[1])
           block == code_block(section)
       IN  (IF name # "" /\ block.found THEN << <<name, block.code>> >> ELSE <<>>)
           \o js_parse_sections(Tail(sections))

\* RADAnalyzer.parseSynthesizers (JavaScript).
parseSynthesizers(text) == js_parse_sections(js_split_headers(text))

\* ------------------------------------------------------ regular expressions
\* The class \w, and the class [a-zA-Z0-9_.?] of a property path.
WordChars ==
  LET w == "abcdefghijklmnopqrstuvwxyzABCDEFGHIJKLMNOPQRSTUVWXYZ0123456789_"
  IN  {Char(w, i) : i \in 1..Len(w)}
PathChars == WordChars \cup {".", "?"}

\* The literal lit stands at 0-based position pos of s.
At(s, pos, lit) == pos + Len(lit) <= Len(s) /\ Slice(s, pos, pos + Len(lit)) = lit

\* The 0-based position just past the greedy run, from pos, of characters in chars
\* (X* for a character class X), and of characters not in chars ([^...]*).
RECURSIVE span(_, _, _)
span(s, pos, chars) ==
  IF pos >= Len(s) THEN Len(s)
  ELSE IF Char(s, pos + 1) \in chars THEN span(s, pos + 1, chars)
  ELSE pos
span_not(s, pos, chars) ==
  LET stop == {j \in pos..(Len(s) - 1) : Char(s, j + 1) \in chars}
  IN  IF stop = {} THEN Len(s) ELSE SetMin(stop)

\* str.lower()
RECURSIVE lower(_)
lower(s) ==
  LET upper == "ABCDEFGHIJKLMNOPQRSTUVWXYZ"
      small == "abcdefghijklmnopqrstuvwxyz"
      c == Char(s, 1)
      at == {i \in 1..26 : Char(upper, i) = c}
  IN  IF Len(s) = 0 THEN ""
      ELSE (IF at = {} THEN c ELSE Char(small, SetMin(at))) \o lower(SliceFrom(s, 1))

\* s.replace(old, new): every non-overlapping occurrence, left to right.
RECURSIVE replace_all(_, _, _)
replace_all(s, old, new) ==
  LET i == find(s, old, 0)
  IN  IF i = -1 THEN s
      ELSE Slice(s, 0, i) \o new \o replace_all(SliceFrom(s, i + Len(old)), old, new)

\* The tail shared by the three type comparisons:  \s*===\s*[quote](\w+)[quote]
\* tried at position pos. lit is group 1, end the position after the closing quote.
type_comparison(code, pos) ==
  LET eq == span(code, pos, Whitespace)
      quote == span(code, eq + 3, Whitespace)
      stop == span(code, quote + 1, WordChars)
  IN  IF /\ At(code, eq, "===")
         /\ quote < Len(code) /\ Char(code, quote + 1) \in QuoteChars
         /\ stop > quote + 1
         /\ stop < Len(code) /\ Char(code, stop + 1) \in QuoteChars
      THEN [ok |-> TRUE, lit |-> Slice(code, quote + 1, stop), end |-> stop + 1]
      ELSE [ok |-> FALSE, lit |-> "", end |-> pos]

\* ------------------------------------------------ RADFieldAnalyzer._infer_entity_type
\* The variable name looked at before the type comparisons of the code.
_infer_entity_type_by_name_first(code, entity_var) ==
  LET filter_hits == {i \in 0..(Len(code) - 1) :
                        /\ At(code, i, "entity.type")
                        /\ type_comparison(code, i + 11).ok
                        /\ find(code, entity_var, type_comparison(code, i + 11).end) # -1}
      type_hits == {i \in 0..(Len(code) - 1) :
                      /\ At(code, i, entity_var \o ".type")
                      /\ type_comparison(code, i + Len(entity_var) + 5).ok}
      var_lower == lower(entity_var)
  IN  IF contains(var_lower, "wsbv") THEN "wsbvnext"
      ELSE IF contains(var_lower, "mktg") THEN "mktgasst"
      ELSE IF contains(var_lower, "uce") THEN "uce"
      ELSE IF filter_hits # {} THEN type_comparison(code, SetMin(filter_hits) + 11).lit
      ELSE IF type_hits # {}
           THEN type_comparison(code, SetMin(type_hits) + Len(entity_var) + 5).lit
      ELSE "unknown"

_infer_entity_type(code, entity_var) ==
  LET \* entity\.type\s*===\s*[quote](\w+)[quote].*?{entity_var}  with re.DOTALL
      filter_hits == {i \in 0..(Len(code) - 1) :
                        /\ At(code, i, "entity.type")
                        /\ type_comparison(code, i + 11).ok
                        /\ find(code, entity_var, type_comparison(code, i + 11).end) # -1}
      \* {entity_var}\.type\s*===\s*[quote](\w+)[quote]
      type_hits == {i \in 0..(Len(code) - 1) :
                      /\ At(code, i, entity_var \o ".type")
                      /\ type_comparison(code, i + Len(entity_var) + 5).ok}
      var_lower == lower(entity_var)
  IN  IF filter_hits # {} THEN type_comparison(code, SetMin(filter_hits) + 11).lit
      ELSE IF type_hits # {}
           THEN type_comparison(code, SetMin(type_hits) + Len(entity_var) + 5).lit
      ELSE IF contains(var_lower, "wsbv") THEN "wsbvnext"
      ELSE IF contains(var_lower, "mktg") THEN "mktgasst"
      ELSE IF contains(var_lower, "uce") THEN "uce"
      ELSE "unknown"

\* One entry of a field-access list.
FieldAccess(field, entity_type, access_method) ==
  [field |-> field, normalized |-> normalize_field_path(field),
   entity_type |-> entity_type, access_method |-> access_method]

\* [FieldAccess(f, entity_type, access_method) for f in fields]
RECURSIVE FieldAccesses(_, _, _)
FieldAccesses(fields, entity_type, access_method) ==
  IF Len(fields) = 0 THEN <<>>
  ELSE <<FieldAccess(Head(fields), entity_type, access_method)>>
       \o FieldAccesses(Tail(fields), entity_type, access_method)

\* ------------------------------------------ RADFieldAnalyzer.extract_entity_pick_fields
\* re.findall(r'[quote]([^quote]+)[quote]', fields_str)
RECURSIVE quoted_literals(_)
quoted_literals(s) ==
  LET starts == {p \in 0..(Len(s) - 3) :
                   /\ Char(s, p + 1) \in QuoteChars
                   /\ Char(s, p + 2) \notin QuoteChars
                   /\ span_not(s, p + 1, QuoteChars) < Len(s)}
      p == SetMin(starts)
      q == span_not(s, p + 1, QuoteChars)
  IN  IF starts = {} THEN <<>>
      ELSE <<Slice(s, p + 1, q)>> \o quoted_literals(SliceFrom(s, q + 1))

\* entityPick\s*\(\s*(\w+)\s*,\s*\[([\s\S]*?)\]\s*\)  tried at position i.
entity_pick_match(code, i) ==
  LET open == span(code, i + 10, Whitespace)
      var_start == span(code, open + 1, Whitespace)
      var_end == span(code, var_start, WordChars)
      comma == span(code, var_end, Whitespace)
      bracket == span(code, comma + 1, Whitespace)
      closes == {k \in (bracket + 1)..(Len(code) - 1) :
                   Char(code, k + 1) = "]" /\ At(code, span(code, k + 1, Whitespace), ")")}
  IN  IF /\ At(code, i, "entityPick")
         /\ At(code, open, "(")
         /\ var_end > var_start
         /\ At(code, comma, ",")
         /\ At(code, bracket, "[")
         /\ closes # {}
      THEN [ok |-> TRUE, entity_var |-> Slice(code, var_start, var_end),
            fields_str |-> Slice(code, bracket + 1, SetMin(closes)),
            end |-> span(code, SetMin(closes) + 1, Whitespace) + 1]
      ELSE [ok |-> FALSE, entity_var |-> "", fields_str |-> "", end |-> i]

\* The records of the re.finditer loop, searching from position pos on.
RECURSIVE entity_pick_from(_, _)
entity_pick_from(code, pos) ==
  LET i == find(code, "entityPick", pos)
      m == entity_pick_match(code, i)
  IN  IF i = -1 THEN <<>>
      ELSE IF ~m.ok THEN entity_pick_from(code, i + 1)
      ELSE FieldAccesses(quoted_literals(m.fields_str),
                         _infer_entity_type(code, m.entity_var), "entityPick")
           \o entity_pick_from(code, m.end)

\* re.search in place of re.finditer: the fields of the first call only.
extract_entity_pick_fields_first_call(code) ==
  LET hits == {i \in 0..(Len(code) - 1) : entity_pick_match(code, i).ok}
      m == entity_pick_match(code, SetMin(hits))
  IN  IF hits = {} THEN <<>>
      ELSE FieldAccesses(quoted_literals(m.fields_str),
                         _infer_entity_type(code, m.entity_var), "entityPick")

extract_entity_pick_fields(code) == entity_pick_from(code, 0)

\* -------------------------------------- RADFieldAnalyzer.extract_direct_property_access
\* profile\.request\.query\.(\w+): the records of the first finditer loop, from pos on.
RECURSIVE query_access_from(_, _)
query_access_from(code, pos) ==
  LET i == find(code, "profile.request.query.", pos)
      stop == span(code, i + 22, WordChars)
      field == "request.query." \o Slice(code, i + 22, stop)
  IN  IF i = -1 THEN <<>>
      ELSE IF stop = i + 22 THEN query_access_from(code, i + 1)
      ELSE << [field |-> field, normalized |-> field,
               entity_type |-> "profile", access_method |-> "direct"] >>
           \o query_access_from(code, stop)

\* The closing alternation (?:\s*[=!<>]|\s*\?\?|\s*&&|\s*\|\||\s*\)) tried at position e:
\* the position after it, -1 when no alternative matches.
operator_after(code, e) ==
  LET w == span(code, e, Whitespace)
  IN  IF w < Len(code) /\ Char(code, w + 1) \in {"=", "!", "<", ">"} THEN w + 1
      ELSE IF At(code, w, "??") \/ At(code, w, "&&") \/ At(code, w, "||") THEN w + 2
      ELSE IF At(code, w, ")") THEN w + 1
      ELSE -1

\* (\w+)\.([a-zA-Z0-9_.?]+)(?:...) tried at position i: group 2 is the longest run
\* of path characters after which the closing alternation matches.
property_match(code, i) ==
  LET dot == span(code, i, WordChars)
      run == span(code, dot + 1, PathChars)
      ends == {e \in (dot + 2)..run : operator_after(code, e) # -1}
  IN  IF dot > i /\ At(code, dot, ".") /\ ends # {}
      THEN [ok |-> TRUE, var_name |-> Slice(code, i, dot),
            prop_path |-> replace_all(Slice(code, dot + 1, SetMax(ends)), "?.", "."),
            end |-> operator_after(code, SetMax(ends))]
      ELSE [ok |-> FALSE, var_name |-> "", prop_path |-> "", end |-> i]

\* Variable names the second loop skips.
SkippedVariables == {"profile", "entity", "console", "Object", "Array", "Math"}

\* The records of the second finditer loop, searching from position pos on.
RECURSIVE property_access_from(_, _)
property_access_from(code, pos) ==
  LET hits == {i \in pos..(Len(code) - 1) : property_match(code, i).ok}
      m == property_match(code, SetMin(hits))
  IN  IF hits = {} THEN <<>>
      ELSE (IF m.var_name \in SkippedVariables THEN <<>>
            ELSE <<FieldAccess(m.prop_path, _infer_entity_type(code, m.var_name), "direct")>>)
           \o property_access_from(code, m.end)

extract_direct_property_access(code) ==
  query_access_from(code, 0) \o property_access_from(code, 0)

\* -------------------------------------- RADFieldAnalyzer.extract_destructuring_patterns
\* _parse_destructuring over the parts of destruct_str.split(',').
RECURSIVE destructured_names(_)
destructured_names(parts) ==
  LET part == strip(Head(parts), Whitespace)
      field_name == IF contains(part, ":")
                    THEN strip(split(part, ":")[1], Whitespace)
                    ELSE part
  IN  IF Len(parts) = 0 THEN <<>>
      ELSE (IF field_name # "" /\ ~startswith(field_name, "{") THEN <<field_name>> ELSE <<>>)
           \o destructured_names(Tail(parts))

_parse_destructuring(destruct_str) == destructured_names(split(destruct_str, ","))

\* const\s*\{([^}]+)\}\s*=\s*(\w+)  tried at position i.
destructuring_match(code, i) ==
  LET brace == span(code, i + 5, Whitespace)
      close == span_not(code, brace + 1, {"}"})
      eq == span(code, close + 1, Whitespace)
      var_start == span(code, eq + 1, Whitespace)
      var_end == span(code, var_start, WordChars)
  IN  IF /\ At(code, i, "const")
         /\ At(code, brace, "{")
         /\ close > brace + 1
         /\ At(code, close, "}")
         /\ At(code, eq, "=")
         /\ var_end > var_start
      THEN [ok |-> TRUE, fields_str |-> Slice(code, brace + 1, close),
            source_var |-> Slice(code, var_start, var_end), end |-> var_end]
      ELSE [ok |-> FALSE, fields_str |-> "", source_var |-> "", end |-> i]

\* The records of the re.finditer loop, searching from position pos on.
RECURSIVE destructuring_from(_, _)
destructuring_from(code, pos) ==
  LET i == find(code, "const", pos)
      m == destructuring_match(code, i)
  IN  IF i = -1 THEN <<>>
      ELSE IF ~m.ok THEN destructuring_from(code, i + 1)
      ELSE FieldAccesses(_parse_destructuring(m.fields_str),
                         _infer_entity_type(code, m.source_var), "destructuring")
           \o destructuring_from(code, m.end)

extract_destructuring_patterns(code) == destructuring_from(code, 0)

\* ------------------------------------------------ RADFieldAnalyzer.extract_entity_types
\* The literals of the three type_patterns; no two matches of one pattern overlap,
\* so finditer sees every position where the pattern matches.
extract_entity_types(code) ==
  LET literals(prefix) ==
        {type_comparison(code, i + Len(prefix)).lit :
           i \in {k \in 0..(Len(code) - 1) :
                    At(code, k, prefix) /\ type_comparison(code, k + Len(prefix)).ok}}
  IN  literals("entity.type") \cup literals("type") \cup literals(".type")

\* ------------------------------------------------ RADFieldAnalyzer.detect_join_patterns
\* Group 2 of  joinEntities.*?\((.*?)\)\s*=>\s*\(([\s\S]*?)\)  for re.search:
\* the dot does not cross a newline, and the lazy groups stop at the first fit.
join_condition(code) ==
  LET arrow(p) == LET a == span(code, p + 1, Whitespace)
                      b == span(code, a + 2, Whitespace)
                  IN  IF At(code, a, "=>") /\ At(code, b, "(") THEN b + 1 ELSE -1
      fits(i) == {p \in (i + 13)..(Len(code) - 1) :
                    /\ At(code, p, ")")
                    /\ find(Slice(code, i + 12, p), "(", 0) # -1
                    /\ ~contains(Slice(code, i + 12, p), "\n")
                    /\ arrow(p) # -1
                    /\ find(code, ")", arrow(p)) # -1}
      starts == {i \in 0..(Len(code) - 1) : At(code, i, "joinEntities") /\ fits(i) # {}}
      q == arrow(SetMin(fits(SetMin(starts))))
  IN  IF starts = {} THEN [ok |-> FALSE, condition |-> ""]
      ELSE [ok |-> TRUE, condition |-> Slice(code, q, find(code, ")", q))]

\* (\w+)\.type\s*===\s*[quote](\w+)[quote]  over the condition: group 2 of each match.
RECURSIVE joined_entities_from(_, _)
joined_entities_from(cond, pos) ==
  LET m(i) == type_comparison(cond, span(cond, i, WordChars) + 5)
      hits == {i \in pos..(Len(cond) - 1) :
                 /\ span(cond, i, WordChars) > i
                 /\ At(cond, span(cond, i, WordChars), ".type")
                 /\ m(i).ok}
  IN  IF hits = {} THEN <<>>
      ELSE <<m(SetMin(hits)).lit>> \o joined_entities_from(cond, m(SetMin(hits)).end)

\* (\w+)\.(\w+)\s*===\s*(\w+)\.(\w+)  over the condition: left and right of each match.
RECURSIVE join_conditions_from(_, _)
join_conditions_from(cond, pos) ==
  LET m(i) ==
        LET d1 == span(cond, i, WordChars)
            e1 == span(cond, d1 + 1, WordChars)
            eq == span(cond, e1, Whitespace)
            s2 == span(cond, eq + 3, Whitespace)
            d2 == span(cond, s2, WordChars)
            e2 == span(cond, d2 + 1, WordChars)
        IN  [ok |-> /\ d1 > i /\ At(cond, d1, ".") /\ e1 > d1 + 1
                    /\ At(cond, eq, "===")
                    /\ d2 > s2 /\ At(cond, d2, ".") /\ e2 > d2 + 1,
             left |-> Slice(cond, i, e1), right |-> Slice(cond, s2, e2), end |-> e2]
      hits == {i \in pos..(Len(cond) - 1) : m(i).ok}
      first == m(SetMin(hits))
  IN  IF hits = {} THEN <<>>
      ELSE <<[left |-> first.left, right |-> first.right]>>
           \o join_conditions_from(cond, first.end)

detect_join_patterns(code) ==
  LET match == join_condition(code)
  IN  IF ~contains(code, "joinEntities")
      THEN [uses_join |-> FALSE, join_conditions |-> <<>>, joined_entities |-> <<>>]
      ELSE IF ~match.ok
      THEN [uses_join |-> TRUE, join_conditions |-> <<>>, joined_entities |-> <<>>]
      ELSE [uses_join |-> TRUE,
            join_conditions |-> join_conditions_from(match.condition, 0),
            joined_entities |-> joined_entities_from(match.condition, 0)]

\* ------------------------------------------------ RADFieldAnalyzer.analyze_return_pattern
\* The empty array looked for after the other patterns.
analyze_return_pattern_empty_last(code) ==
  LET \* the position after lit when it follows optional whitespace at pos, else -1
      then(pos, lit) == IF pos = -1 THEN -1
                        ELSE IF At(code, span(code, pos, Whitespace), lit)
                        THEN span(code, pos, Whitespace) + Len(lit)
                        ELSE -1
      returns == {i \in 0..(Len(code) - 1) : At(code, i, "return")}
      object(i) == then(then(i + 6, "["), "{")
      none(i) == LET q == then(then(then(object(i), "type"), ":"), "")
                 IN  q # -1 /\ (At(code, q, "\"none\"") \/ At(code, q, "'none'")
                                \/ At(code, q, "\"none'") \/ At(code, q, "'none\""))
      venture(i) == LET v == find(code, "ventureId", i + 6)
                    IN  v # -1 /\ ~contains(Slice(code, i + 6, v), "\n")
  IN  IF \E i \in returns : none(i)
      THEN [type |-> "static_none", dynamic |-> FALSE]
      ELSE IF \E i \in returns : then(object(i), "...") # -1
      THEN [type |-> "spread_operator", dynamic |-> TRUE]
      ELSE IF \E i \in returns : venture(i)
      THEN [type |-> "venture_based", dynamic |-> TRUE]
      ELSE IF contains(code, "return []") \/ contains(code, "return[];")
      THEN [type |-> "empty_array", dynamic |-> FALSE]
      ELSE [type |-> "dynamic", dynamic |-> TRUE]

analyze_return_pattern(code) ==
  LET \* the position after lit when it follows optional whitespace at pos, else -1
      then(pos, lit) == IF pos = -1 THEN -1
                        ELSE IF At(code, span(code, pos, Whitespace), lit)
                        THEN span(code, pos, Whitespace) + Len(lit)
                        ELSE -1
      returns == {i \in 0..(Len(code) - 1) : At(code, i, "return")}
      object(i) == then(then(i + 6, "["), "{")
      none(i) == LET q == then(then(then(object(i), "type"), ":"), "")
                 IN  q # -1 /\ (At(code, q, "\"none\"") \/ At(code, q, "'none'")
                                \/ At(code, q, "\"none'") \/ At(code, q, "'none\""))
      venture(i) == LET v == find(code, "ventureId", i + 6)
                    IN  v # -1 /\ ~contains(Slice(code, i + 6, v), "\n")
  IN  IF contains(code, "return []") \/ contains(code, "return[];")
      THEN [type |-> "empty_array", dynamic |-> FALSE]
      ELSE IF \E i \in returns : none(i)
      THEN [type |-> "static_none", dynamic |-> FALSE]
      ELSE IF \E i \in returns : then(object(i), "...") # -1
      THEN [type |-> "spread_operator", dynamic |-> TRUE]
      ELSE IF \E i \in returns : venture(i)
      THEN [type |-> "venture_based", dynamic |-> TRUE]
      ELSE [type |-> "dynamic", dynamic |-> TRUE]

\* ---------------------------------------------- RADFieldAnalyzer.calculate_complexity_score
\* The levels cut as the pattern report cuts them: complex from a score of 5 on.
calculate_complexity_score_complex_from_5(analysis) ==
  LET terms == << <<analysis.join_info.uses_join, 3, "uses_join_entities">>,
                  <<Cardinality(analysis.all_fields) > 10, 2, "many_fields">>,
                  <<Cardinality(analysis.entity_types) > 1, 2, "multiple_entities">>,
                  <<analysis.code_length > 1000, 2, "long_code">>,
                  <<analysis.conditional_logic, 1, "complex_conditions">> >>
      RECURSIVE sum(_)
      sum(k) == IF k = 0 THEN 0 ELSE sum(k - 1) + (IF terms[k][1] THEN terms[k][2] ELSE 0)
      RECURSIVE names(_)
      names(k) == IF k = 0 THEN <<>>
                  ELSE names(k - 1) \o (IF terms[k][1] THEN <<terms[k][3]>> ELSE <<>>)
      score == sum(5)
  IN  [score |-> score,
       level |-> IF score <= 2 THEN "simple" ELSE IF score < 5 THEN "medium" ELSE "complex",
       factors |-> names(5)]

calculate_complexity_score(analysis) ==
  LET terms == << <<analysis.join_info.uses_join, 3, "uses_join_entities">>,
                  <<Cardinality(analysis.all_fields) > 10, 2, "many_fields">>,
                  <<Cardinality(analysis.entity_types) > 1, 2, "multiple_entities">>,
                  <<analysis.code_length > 1000, 2, "long_code">>,
                  <<analysis.conditional_logic, 1, "complex_conditions">> >>
      RECURSIVE sum(_)
      sum(k) == IF k = 0 THEN 0 ELSE sum(k - 1) + (IF terms[k][1] THEN terms[k][2] ELSE 0)
      RECURSIVE names(_)
      names(k) == IF k = 0 THEN <<>>
                  ELSE names(k - 1) \o (IF terms[k][1] THEN <<terms[k][3]>> ELSE <<>>)
      score == sum(5)
  IN  [score |-> score,
       level |-> IF score <= 2 THEN "simple" ELSE IF score <= 5 THEN "medium" ELSE "complex",
       factors |-> names(5)]

\* ------------------------------------------------- RADFieldAnalyzer.analyze_synthesizer
\* An analysis whose field_accesses keep one record per normalized path.
analyze_synthesizer_deduplicated(name, code) ==
  LET RECURSIVE unique(_)
      unique(records) ==
        LET rest == unique(SubSeq(records, 1, Len(records) - 1))
            last == records[Len(records)]
        IN  IF Len(records) = 0 THEN <<>>
            ELSE IF \E i \in DOMAIN rest : rest[i].normalized = last.normalized THEN rest
            ELSE Append(rest, last)
      all_field_accesses == unique(extract_entity_pick_fields(code)
                                   \o extract_direct_property_access(code)
                                   \o extract_destructuring_patterns(code))
      analysis ==
        [name |-> name,
         entity_types |-> extract_entity_types(code),
         all_fields |-> {all_field_accesses[i].normalized : i \in DOMAIN all_field_accesses},
         field_accesses |-> all_field_accesses,
         join_info |-> detect_join_patterns(code),
         return_pattern |-> analyze_return_pattern(code),
         code_length |-> Len(code),
         conditional_logic |-> contains(code, "if") \/ contains(code, "?"),
         uses_spread |-> contains(code, "..."),
         uses_optional_chaining |-> contains(code, "?.")]
  IN  analysis @@ [complexity |-> calculate_complexity_score(analysis)]

\* The analysis record appended to self.results. The two lists Python builds from
\* sets (entity_types, all_fields) are kept as sets: their order is unspecified.
analyze_synthesizer(name, code) ==
  LET all_field_accesses == extract_entity_pick_fields(code)
                            \o extract_direct_property_access(code)
                            \o extract_destructuring_patterns(code)
      analysis ==
        [name |-> name,
         entity_types |-> extract_entity_types(code),
         all_fields |-> {all_field_accesses[i].normalized : i \in DOMAIN all_field_accesses},
         field_accesses |-> all_field_accesses,
         join_info |-> detect_join_patterns(code),
         return_pattern |-> analyze_return_pattern(code),
         code_length |-> Len(code),
         conditional_logic |-> contains(code, "if") \/ contains(code, "?"),
         uses_spread |-> contains(code, "..."),
         uses_optional_chaining |-> contains(code, "?.")]
  IN  analysis @@ [complexity |-> calculate_complexity_score(analysis)]

\* --------------------------------------------------------------- dicts and Counters
\* A dict is a sequence of <<key, value>> pairs in insertion order.
index_of(table, key) ==
  LET hits == {i \in DOMAIN table : table[i][1] = key}
  IN  IF hits = {} THEN 0 ELSE SetMin(hits)

\* A counter that stays at 1 for a key it is fed again.
Counter_of_distinct_keys(keys) ==
  LET firsts == {i \in DOMAIN keys : \A j \in 1..(i - 1) : keys[j] # keys[i]}
      nth(k) == CHOOSE i \in firsts : Cardinality({j \in firsts : j < i}) = k - 1
  IN  [k \in 1..Cardinality(firsts) |-> <<keys[nth(k)], 1>>]

\* collections.Counter fed the keys one by one: the keys in the order they were
\* first fed, each with the number of times it was fed.
Counter(keys) ==
  LET firsts == {i \in DOMAIN keys : \A j \in 1..(i - 1) : keys[j] # keys[i]}
      nth(k) == CHOOSE i \in firsts : Cardinality({j \in firsts : j < i}) = k - 1
  IN  [k \in 1..Cardinality(firsts) |->
         <<keys[nth(k)], Cardinality({i \in DOMAIN keys : keys[i] = keys[nth(k)]})>>]

\* sorted(pairs, key=lambda x: x[1], reverse=True): stable, so pairs with equal
\* figures keep their order.
RECURSIVE sorted_desc(_)
sorted_desc(pairs) ==
  LET RECURSIVE insert(_, _)
      insert(done, x) ==
        IF Len(done) = 0 THEN <<x>>
        ELSE IF done[Len(done)][2] >= x[2] THEN Append(done, x)
        ELSE Append(insert(SubSeq(done, 1, Len(done) - 1), x), done[Len(done)])
  IN  IF Len(pairs) = 0 THEN <<>>
      ELSE insert(sorted_desc(SubSeq(pairs, 1, Len(pairs) - 1)), pairs[Len(pairs)])

\* s[:n]
take(pairs, n) == SubSeq(pairs, 1, IF Len(pairs) < n THEN Len(pairs) ELSE n)

\* Counter.most_common(n)
most_common(counter, n) == take(sorted_desc(counter), n)

\* The lists of a sequence of lists, chained.
RECURSIVE chain(_)
chain(lists) == IF Len(lists) = 0 THEN <<>> ELSE Head(lists) \o chain(Tail(lists))

\* [f(x) for x in s]
Map(s, f(_)) == [i \in DOMAIN s |-> f(s[i])]

\* The field accesses of all synthesizers, in order, each with its synthesizer name.
all_accesses(details) ==
  chain(Map(details, LAMBDA synth :
    Map(synth.field_accesses, LAMBDA a : a @@ [synth |-> synth.name])))

\* -------------------------------------------- RADFieldAnalyzer._identify_common_patterns
\* The key of patterns a field is appended to; "" when no branch of the chain applies.
common_pattern(field) ==
  LET has(word) == contains(field, word)
  IN  IF has("billing") \/ has("payment") THEN "billing"
      ELSE IF has("entitlement") \/ has("current") THEN "entitlements"
      ELSE IF has("feature") \/ has("widget") THEN "features"
      ELSE IF has("facebook") \/ has("instagram") \/ has("social") THEN "social_media"
      ELSE IF has("product") \/ has("commerce") \/ has("ols") THEN "commerce"
      ELSE IF has("appointment") \/ has("ola") \/ has("service") THEN "appointments"
      ELSE IF has("account") \/ has("shopper") THEN "authentication"
      ELSE ""

_identify_common_patterns(field_counter) ==
  LET keys == <<"authentication", "billing", "features", "entitlements",
                "social_media", "commerce", "appointments", "content">>
  IN  Map(keys, LAMBDA key :
        <<key, take(sorted_desc(SelectSeq(field_counter,
                                           LAMBDA fc : common_pattern(fc[1]) = key)), 5)>>)

\* ------------------------------------------ RADFieldAnalyzer._analyze_entity_relationships
_analyze_entity_relationships(results) ==
  chain(Map(results, LAMBDA result :
    IF result.join_info.uses_join
    THEN Map(result.join_info.join_conditions, LAMBDA condition :
           [synthesizer |-> result.name, relationship |-> condition,
            entities |-> result.join_info.joined_entities])
    ELSE <<>>))

\* ------------------------------------------ RADFieldAnalyzer.generate_comprehensive_report
\* sorted(self.entity_types) is kept as the set itself.
generate_comprehensive_report(results, all_fields, entity_types, variations) ==
  LET accesses == all_accesses(results)
      field_counter == Counter(Map(accesses, LAMBDA a : a.normalized))
      entities == Counter(Map(accesses, LAMBDA a : a.entity_type))
      entity_field_map(entity) ==
        Counter(Map(SelectSeq(accesses, LAMBDA a : a.entity_type = entity),
                    LAMBDA a : a.normalized))
  IN  [summary |->
         [total_synthesizers |-> Len(results),
          total_unique_fields |-> Cardinality(all_fields),
          total_entity_types |-> Cardinality(entity_types),
          entity_types |-> entity_types,
          complexity_distribution |-> Counter(Map(results, LAMBDA r : r.complexity.level)),
          return_patterns |-> Counter(Map(results, LAMBDA r : r.return_pattern.type))],
       field_analysis |->
         [most_used_fields |-> most_common(field_counter, 20),
          fields_by_entity |-> Map(entities, LAMBDA e :
                                 <<e[1], most_common(entity_field_map(e[1]), 10)>>),
          field_variations |-> variations,
          access_methods |-> Counter(Map(accesses, LAMBDA a : a.access_method)),
          common_patterns |-> _identify_common_patterns(field_counter)],
       entity_relationships |-> _analyze_entity_relationships(results),
       synthesizer_details |-> results]

\* --------------------------------- RADFieldAnalyzer: what analyze_synthesizer accumulates
\* The records built through normalize_field_path and registered by entity type:
\* all but those of the request.query loop.
registered_accesses(code) ==
  extract_entity_pick_fields(code) \o property_access_from(code, 0)
  \o extract_destructuring_patterns(code)

\* self.all_fields: only extract_entity_pick_fields adds to it.
all_fields_after(fields, code) ==
  LET picked == extract_entity_pick_fields(code)
  IN  fields \cup {picked[i].normalized : i \in DOMAIN picked}

\* self.field_variations after the normalize_field_path calls of one section.
RECURSIVE field_variations_after(_, _)
field_variations_after(fv, raw_fields) ==
  IF Len(raw_fields) = 0 THEN fv
  ELSE field_variations_after(normalize_field_path_variations(fv, Head(raw_fields)),
                              Tail(raw_fields))

\* self.field_by_entity (a defaultdict(set)): direct and destructured fields are
\* registered unless their entity type is unknown.
field_by_entity_after(fbe, code) ==
  LET registered == registered_accesses(code)
      added == {a \in {registered[i] : i \in DOMAIN registered} :
                  a.access_method = "entityPick" \/ a.entity_type # "unknown"}
      entities == {a.entity_type : a \in added}
  IN  [e \in DOMAIN fbe \cup entities |->
         (IF e \in DOMAIN fbe THEN fbe[e] ELSE {})
         \cup {a.normalized : a \in {b \in added : b.entity_type = e}}]

\* ------------------------------------------------------------------- categorizers
\* An if/elif chain over buckets, each <<category, whether its test holds>>: the
\* category of the first bucket whose test holds, else the category of the else branch.
RECURSIVE last_match(_, _)
last_match(buckets, default) ==
  IF Len(buckets) = 0 THEN default
  ELSE IF buckets[Len(buckets)][2] THEN buckets[Len(buckets)][1]
  ELSE last_match(SubSeq(buckets, 1, Len(buckets) - 1), default)

RECURSIVE first_match(_, _)
first_match(buckets, default) ==
  IF Len(buckets) = 0 THEN default
  ELSE IF Head(buckets)[2] THEN Head(buckets)[1]
  ELSE first_match(Tail(buckets), default)

\* all(x in field for x in words)
all_in(field, words) == \A i \in DOMAIN words : contains(field, words[i])

\* any(x in field for x in words)
any_in(field, words) == \E i \in DOMAIN words : contains(field, words[i])

\* UniqueDataAnalyzer.categorize_field: <<category, subcategory>> by the first part.
categorize_field(normalized_field) ==
  LET parts == split(normalized_field, ".")
      second == IF Len(parts) > 1 THEN parts[2] ELSE "general"
  IN  IF parts[1] \in {"account", "entity"} THEN <<"Identity & Core Data", parts[1]>>
      ELSE IF parts[1] \in {"billing", "payment"} THEN <<"Billing & Payments", "billing">>
      ELSE IF parts[1] = "entitlements" THEN <<"Entitlements & Permissions", second>>
      ELSE IF parts[1] = "website" THEN <<"Website Configuration", second>>
      ELSE IF parts[1] \in {"email", "social"} THEN <<"Marketing & Social", parts[1]>>
      ELSE IF parts[1] = "commerce" THEN <<"E-commerce", second>>
      ELSE IF parts[1] = "appointments" THEN <<"Appointments & Services", second>>
      ELSE IF parts[1] = "customer" THEN <<"Customer Data", second>>
      ELSE IF parts[1] = "links" THEN <<"Navigation Links", second>>
      ELSE IF parts[1] = "context" THEN <<"Request Context", second>>
      ELSE <<"Other", "uncategorized">>

\* DataDictionaryGenerator._categorize_field: the tests of its chain, on field.lower().
dictionary_buckets(field) ==
  LET has(words) == any_in(lower(field), words)
  IN  << <<"Identity & Authentication", has(<<"account", "shopper", "id">>)>>,
         <<"Billing & Payments", has(<<"billing", "payment", "commitment", "autorenew">>)>>,
         <<"Entitlements & Permissions", has(<<"entitlement", "current", "transitionable">>)>>,
         <<"Features & Configuration", has(<<"feature", "widget", "published">>)>>,
         <<"Social Media & Marketing", has(<<"facebook", "instagram", "social", "gem">>)>>,
         <<"Commerce & Products", has(<<"product", "commerce", "ols", "marketplace">>)>>,
         <<"Appointments & Services", has(<<"appointment", "ola", "service", "calendar">>)>>,
         <<"Status & Types", has(<<"type", "status">>)>> >>

_categorize_field(field) == first_match(dictionary_buckets(field), "Other")

\* create_visual_summary: the tests of the chain that fills field_categories.
summary_buckets(field) ==
  LET has(words) == any_in(field, words)
  IN  << <<"Core Identity", contains(lower(field), "account") \/ field \in {"id", "type"}>>,
         <<"Billing & Payments", has(<<"billing", "payment", "commitment", "autoRenew">>)>>,
         <<"Feature Entitlements", has(<<"entitlement", "current.">>)>>,
         <<"Website Settings", has(<<"website", "published", "widget", "domain">>)>>,
         <<"Marketing & Social", has(<<"facebook", "instagram", "social", "gem", "email">>)>>,
         <<"E-commerce", has(<<"product", "commerce", "ols", "marketplace">>)>>,
         <<"Appointments", has(<<"appointment", "ola", "service", "calendar">>)>>,
         <<"Customer Data", has(<<"customer", "contact", "intention">>)>>,
         <<"Navigation Links", startswith(field, "links.")>> >>

summary_category(field) == first_match(summary_buckets(field), "Other Data")

\* create_consolidated_list: the tests of the chain that picks the category.
consolidated_buckets(field) ==
  LET has(words) == any_in(field, words)
  IN  << <<"1. Core Identity & References",
           field \in {"accountId", "id", "type"} \/ has(<<"accountId", ".id", ".type">>)>>,
         <<"2. Entitlements & Permissions",
           contains(lower(field), "entitlement") \/ startswith(field, "entitlementData")>>,
         <<"3. Billing & Account Management",
           has(<<"billing", "payment", "commitment", "autoRenew", "shopperId">>)>>,
         <<"4. Website Configuration",
           has(<<"website", "published", "widget", "domain", "features.">>)>>,
         <<"5. Marketing & Social Media",
           has(<<"facebook", "instagram", "social", "gem", "email", "subscriber">>)>>,
         <<"6. E-commerce", has(<<"product", "commerce", "ols", "marketplace", "store">>)>>,
         <<"7. Appointments & Services",
           has(<<"appointment", "ola", "service", "calendar", "booking">>)>>,
         <<"8. Navigation & Links", startswith(field, "links.")>>,
         <<"9. Customer Data", has(<<"customer", "contact", "intention">>)>> >>

\* The subcategory chain nested in each branch.
consolidated_subcategory(category, field) ==
  LET has(word) == contains(field, word)
      sub == CASE category = "1. Core Identity & References" ->
                    << <<"Account IDs", has("accountId")>>,
                       <<"Entity IDs", field = "id" \/ has(".id")>>,
                       <<"Entity Types", field = "type" \/ has(".type")>>,
                       <<"Other Identity", TRUE>> >>
               [] category = "2. Entitlements & Permissions" ->
                    << <<"Current Entitlements", has(".current")>>,
                       <<"Available Entitlements", has(".transitionable") \/ has(".available")>>,
                       <<"General Entitlements", TRUE>> >>
               [] category = "3. Billing & Account Management" -> << <<"Billing Details", TRUE>> >>
               [] category = "4. Website Configuration" ->
                    << <<"Widgets & Features", has("widget")>>,
                       <<"Publishing Status", has("published")>>,
                       <<"Website Type", has("websiteType")>>,
                       <<"Other Settings", TRUE>> >>
               [] category = "5. Marketing & Social Media" ->
                    << <<"Facebook", has("facebook")>>,
                       <<"Instagram", has("instagram")>>,
                       <<"Email Marketing", has("gem") \/ has("email") \/ has("subscriber")>>,
                       <<"Google Business", has("gmb")>>,
                       <<"Yelp", has("yelp")>>,
                       <<"Other Social", TRUE>> >>
               [] category = "6. E-commerce" ->
                    << <<"Products", has("product")>>,
                       <<"Marketplaces", has("marketplace")>>,
                       <<"Store Settings", TRUE>> >>
               [] category = "7. Appointments & Services" ->
                    << <<"Services", has("service")>>,
                       <<"Scheduling", has("calendar") \/ has("booking")>>,
                       <<"General Appointments", TRUE>> >>
               [] category = "8. Navigation & Links" -> << <<"Action Links", TRUE>> >>
               [] category = "9. Customer Data" -> << <<"Customer Info", TRUE>> >>
               [] OTHER -> << <<"Miscellaneous", TRUE>> >>
  IN  first_match(sub, "Miscellaneous")

consolidated_category(field) ==
  LET category == first_match(consolidated_buckets(field), "10. Other Data")
  IN  <<category, consolidated_subcategory(category, field)>>

\* ------------------------------------------------------------ UniqueDataAnalyzer
\* Rendered text is kept as the rows of its tables: the figures and their order.
RECURSIVE sum(_)
sum(numbers) == IF Len(numbers) = 0 THEN 0 ELSE Head(numbers) + sum(Tail(numbers))

\* The keys of a dict filled in the order of keys: each once, by first occurrence.
first_seen(keys) == Map(Counter(keys), LAMBDA kc : kc[1])

\* analyze_report: self.all_fields, keyed by the deeply normalized path. The category
\* is set when the key is first seen; data_type and description are left out.
analyze_report(report) ==
  LET accesses == Map(all_accesses(report.synthesizer_details), LAMBDA a :
                    a @@ [deep |-> normalize_field_deeply(a.normalized)])
      of(field) == {accesses[i] : i \in {j \in DOMAIN accesses : accesses[j].deep = field}}
  IN  Map(first_seen(Map(accesses, LAMBDA a : a.deep)), LAMBDA field :
        <<field, [raw_variations |-> {a.field : a \in of(field)},
                  synthesizers |-> {a.synth : a \in of(field)},
                  entity_sources |-> {a.entity_type : a \in of(field)},
                  access_patterns |-> {a.access_method : a \in of(field)},
                  category |-> categorize_field(field)[1],
                  subcategory |-> categorize_field(field)[2]]>>)

\* generate_unique_data_report: summary figures, the Top 20 rows <<field, Used By>>
\* and, per category by total usage, the rows <<field, Used by>>.
generate_unique_data_report(all_fields) ==
  LET used_by == Map(all_fields, LAMBDA f : <<f[1], Cardinality(f[2].synthesizers)>>)
      in(category) == SelectSeq(used_by, LAMBDA row :
                        all_fields[index_of(all_fields, row[1])][2].category = category)
      categories == first_seen(Map(all_fields, LAMBDA f : f[2].category))
      category_usage == Map(categories, LAMBDA c :
                          <<c, sum(Map(in(c), LAMBDA row : row[2]))>>)
  IN  [total_unique |-> Len(all_fields),
       total_synthesizers |->
         Cardinality(UNION {all_fields[i][2].synthesizers : i \in DOMAIN all_fields}),
       top20 |-> take(sorted_desc(used_by), 20),
       categories |-> Map(sorted_desc(category_usage), LAMBDA cu :
                        <<cu[1], sorted_desc(in(cu[1]))>>)]

\* generate_data_overlap_matrix: the pairs of synthesizers that share at least three
\* fields, with the two figures of their similarity; a set, the order not kept.
generate_data_overlap_matrix(all_fields) ==
  LET synths == UNION {all_fields[i][2].synthesizers : i \in DOMAIN all_fields}
      fields(s) == {all_fields[i][1] : i \in {j \in DOMAIN all_fields :
                                               s \in all_fields[j][2].synthesizers}}
  IN  {[pair |-> {s1, s2},
        common_fields |-> Cardinality(fields(s1) \cap fields(s2)),
        total |-> Cardinality(fields(s1) \cup fields(s2))] :
         <<s1, s2>> \in {q \in synths \X synths :
                          /\ q[1] # q[2]
                          /\ Cardinality(fields(q[1]) \cap fields(q[2])) >= 3}}

\* --------------------------------------------------------- DataDictionaryGenerator
\* build_dictionary: self.data_dictionary, keyed by the stage-1 normalized path;
\* used_by_synthesizers is a list with one entry per access.
build_dictionary(report) ==
  LET accesses == all_accesses(report.synthesizer_details)
      of(field) == SelectSeq(accesses, LAMBDA a : a.normalized = field)
      set(s) == {s[i] : i \in DOMAIN s}
  IN  Map(first_seen(Map(accesses, LAMBDA a : a.normalized)), LAMBDA field :
        <<field, [entity_types |-> set(Map(of(field), LAMBDA a : a.entity_type)),
                  used_by_synthesizers |-> Map(of(field), LAMBDA a : a.synth),
                  access_methods |-> set(Map(of(field), LAMBDA a : a.access_method)),
                  variations |-> set(Map(of(field), LAMBDA a : a.field)),
                  category |-> _categorize_field(field)]>>)

\* generate_markdown_dictionary: per category of category_order that has fields, the
\* rows <<field, Used by>> by usage.
generate_markdown_dictionary(data_dictionary) ==
  LET category_order ==
        <<"Identity & Authentication", "Entitlements & Permissions",
          "Features & Configuration", "Billing & Payments", "Commerce & Products",
          "Appointments & Services", "Social Media & Marketing", "Status & Types", "Other">>
      in(category) == SelectSeq(data_dictionary, LAMBDA f : f[2].category = category)
  IN  Map(SelectSeq(category_order, LAMBDA c : Len(in(c)) > 0), LAMBDA c :
        <<c, sorted_desc(Map(in(c), LAMBDA f : <<f[1], Len(f[2].used_by_synthesizers)>>))>>)

\* generate_synthesizer_requirements: the names in each of its four pattern groups.
generate_synthesizer_requirements(report) ==
  LET group(synth) ==
        IF synth.return_pattern.type \in {"empty_array", "static_none"}
        THEN "Static/Empty Return"
        ELSE IF synth.join_info.uses_join THEN "Entity Join Query"
        ELSE IF synth.complexity.level = "complex" THEN "Complex Logic"
        ELSE "Simple Entity Query"
  IN  Map(<<"Simple Entity Query", "Entity Join Query", "Static/Empty Return", "Complex Logic">>,
          LAMBDA g : <<g, Map(SelectSeq(report.synthesizer_details, LAMBDA s : group(s) = g),
                              LAMBDA s : s.name)>>)

\* ------------------------------------------------------------ create_visual_summary
\* max(field_usage.values()) raises ValueError when no field was accessed. Of the
\* text, the bar chart rows, the category sets with their usage, and the critical and
\* rare fields are kept.
create_visual_summary(report) ==
  LET accesses == all_accesses(report.synthesizer_details)
      field_usage == Counter(Map(accesses, LAMBDA a : a.normalized))
      synthesizer_count == Len(report.synthesizer_details)
      categories == first_seen(Map(accesses, LAMBDA a : summary_category(a.normalized)))
      in(category) == SelectSeq(field_usage, LAMBDA fc : summary_category(fc[1]) = category)
      set(s) == {s[i] : i \in DOMAIN s}
  IN  IF Len(field_usage) = 0 THEN [raised |-> "ValueError"]
      ELSE [raised |-> "",
            synthesizer_count |-> synthesizer_count,
            unique_fields |-> Len(field_usage),
            most_common |-> most_common(field_usage, 20),
            field_categories |-> Map(categories, LAMBDA c :
                                   <<c, set(Map(in(c), LAMBDA fc : fc[1]))>>),
            category_usage |-> sorted_desc(Map(categories, LAMBDA c :
                                 <<c, sum(Map(in(c), LAMBDA fc : fc[2])), Len(in(c))>>)),
            critical_fields |-> {fc[1] : fc \in {x \in set(field_usage) :
                                                   2 * x[2] > synthesizer_count}},
            rare_fields |-> Cardinality({x \in set(field_usage) : x[2] = 1})]

\* --------------------------------------------------------- create_consolidated_list
\* Per category and subcategory, both in sorted order, the rows <<field, Used by>>:
\* the list is sorted by the access count, the figure shown is the number of
\* distinct synthesizers.
create_consolidated_list(report) ==
  LET accesses == all_accesses(report.synthesizer_details)
      of(field) == SelectSeq(accesses, LAMBDA a : a.normalized = field)
      set(s) == {s[i] : i \in DOMAIN s}
      unique_fields == Map(first_seen(Map(accesses, LAMBDA a : a.normalized)), LAMBDA field :
                         [field |-> field,
                          key |-> consolidated_category(field),
                          count |-> Len(of(field)),
                          entities |-> set(Map(of(field), LAMBDA a : a.entity_type)),
                          synthesizer_count |->
                            Cardinality(set(Map(of(field), LAMBDA a : a.synth)))])
      sorted_keys ==
        << <<"1. Core Identity & References",
             <<"Account IDs", "Entity IDs", "Entity Types", "Other Identity">> >>,
           <<"10. Other Data", <<"Miscellaneous">> >>,
           <<"2. Entitlements & Permissions",
             <<"Available Entitlements", "Current Entitlements", "General Entitlements">> >>,
           <<"3. Billing & Account Management", <<"Billing Details">> >>,
           <<"4. Website Configuration",
             <<"Other Settings", "Publishing Status", "Website Type", "Widgets & Features">> >>,
           <<"5. Marketing & Social Media",
             <<"Email Marketing", "Facebook", "Google Business", "Instagram",
               "Other Social", "Yelp">> >>,
           <<"6. E-commerce", <<"Marketplaces", "Products", "Store Settings">> >>,
           <<"7. Appointments & Services", <<"General Appointments", "Scheduling", "Services">> >>,
           <<"8. Navigation & Links", <<"Action Links">> >>,
           <<"9. Customer Data", <<"Customer Info">> >> >>
      in(key) == SelectSeq(unique_fields, LAMBDA u : u.key = key)
      by_count(key) == sorted_desc(Map(in(key), LAMBDA u : <<u, u.count>>))
      frequency(u) == IF u.synthesizer_count >= 20 THEN "Very Common (20+ synthesizers)"
                      ELSE IF u.synthesizer_count >= 10 THEN "Common (10-19 synthesizers)"
                      ELSE IF u.synthesizer_count >= 5 THEN "Moderate (5-9 synthesizers)"
                      ELSE IF u.synthesizer_count >= 2 THEN "Uncommon (2-4 synthesizers)"
                      ELSE "Rare (1 synthesizer)"
  IN  [total |-> Len(unique_fields),
       sections |->
         Map(SelectSeq(chain(Map(sorted_keys, LAMBDA cs :
                                   Map(cs[2], LAMBDA sub : <<cs[1], sub>>))),
                       LAMBDA key : Len(in(key)) > 0),
             LAMBDA key : <<key[1], key[2],
                            Map(by_count(key), LAMBDA uc :
                                  <<uc[1].field, uc[1].synthesizer_count>>)>>),
       frequency_groups |->
         Map(<<"Very Common (20+ synthesizers)", "Common (10-19 synthesizers)",
               "Moderate (5-9 synthesizers)", "Uncommon (2-4 synthesizers)",
               "Rare (1 synthesizer)">>,
             LAMBDA g : <<g, Len(SelectSeq(unique_fields, LAMBDA u : frequency(u) = g))>>)]

\* ------------------------------------------------------------ RADPatternVisualizer
\* get_total_field_accesses: the counts of most_used_fields, summed.
get_total_field_accesses(report) ==
  sum(Map(report.field_analysis.most_used_fields, LAMBDA fc : fc[2]))

\* The join looked at before the return pattern.
generate_synthesizer_patterns_join_first(report) ==
  LET group(synth) ==
        IF synth.join_info.uses_join THEN "entity_join"
        ELSE IF synth.return_pattern.type \in {"empty_array", "static_none"}
        THEN "static_return"
        ELSE IF synth.return_pattern.type = "venture_based" THEN "venture_based"
        ELSE IF synth.complexity.score >= 5 THEN "complex_logic"
        ELSE IF synth.conditional_logic THEN "conditional_return"
        ELSE "simple_entity_filter"
  IN  Map(<<"simple_entity_filter", "entity_join", "conditional_return",
            "static_return", "venture_based", "complex_logic">>,
          LAMBDA g : <<g, Map(SelectSeq(report.synthesizer_details, LAMBDA s : group(s) = g),
                              LAMBDA s : s.name)>>)

\* generate_synthesizer_patterns: the names in each of its six pattern groups.
generate_synthesizer_patterns(report) ==
  LET group(synth) ==
        IF synth.return_pattern.type \in {"empty_array", "static_none"} THEN "static_return"
        ELSE IF synth.return_pattern.type = "venture_based" THEN "venture_based"
        ELSE IF synth.join_info.uses_join THEN "entity_join"
        ELSE IF synth.complexity.score >= 5 THEN "complex_logic"
        ELSE IF synth.conditional_logic THEN "conditional_return"
        ELSE "simple_entity_filter"
  IN  Map(<<"simple_entity_filter", "entity_join", "conditional_return",
            "static_return", "venture_based", "complex_logic">>,
          LAMBDA g : <<g, Map(SelectSeq(report.synthesizer_details, LAMBDA s : group(s) = g),
                              LAMBDA s : s.name)>>)

\* generate_full_report: the overview figures, the category summary rows and the
\* pattern groups; no step of it divides or indexes when the report is empty.
generate_full_report(report) ==
  [raised |-> "",
   total_synthesizers |-> report.summary.total_synthesizers,
   unique_fields |-> report.summary.total_unique_fields,
   entity_types |-> Cardinality(report.summary.entity_types),
   total_field_accesses |-> get_total_field_accesses(report),
   categories |-> SelectSeq(report.field_analysis.common_patterns, LAMBDA cf : Len(cf[2]) > 0),
   patterns |-> generate_synthesizer_patterns(report)]

\* ------------------------------------------------------ RADFieldAnalyzer.export_report
\* json: what json.load gives back of the text written. json.dumps writes the
\* (field, count) tuples as lists, which are sequences here as the tuples are, and
\* convert_sets writes each set of field_variations as a list in the set's iteration
\* order, which differs from run to run: such a list stays a set here, as the lists
\* analyze_synthesizer makes of its sets are. markdown: the summary figures and the
\* Most Used Fields rows; csv: one row per synthesizer.
export_report(report, format) ==
  IF format = "json" THEN report
  ELSE IF format = "markdown"
  THEN [total_synthesizers |-> report.summary.total_synthesizers,
        unique_fields |-> report.summary.total_unique_fields,
        entity_types |-> report.summary.entity_types,
        complexity_distribution |-> report.summary.complexity_distribution,
        most_used_fields |-> report.field_analysis.most_used_fields,
        common_patterns |-> SelectSeq(report.field_analysis.common_patterns,
                                      LAMBDA cf : Len(cf[2]) > 0)]
  ELSE Map(report.synthesizer_details, LAMBDA synth :
         <<synth.name, synth.complexity.level, synth.entity_types,
           Cardinality(synth.all_fields), synth.join_info.uses_join,
           synth.return_pattern.type>>)

\* ------------------------------------------------- graphql-to-mermaid-python.py
\* A value that may be None: None is the empty tuple, any other value v is <<v>>.
None == <<>>
Some(v) == <<v>>
value(optional) == optional[1]

\* The characters of strip('"\'')
PlainQuotes == {"\"", "'"}

\* strip('"\'`'): what a cleanup that took the template quote off too would return.
extract_pure_graphql_any_quote(query_string) ==
  IF query_string = None \/ value(query_string) = "" THEN None
  ELSE Some(strip(strip(strip(value(query_string), Whitespace), QuoteChars), Whitespace))

\* extract_pure_graphql: None for a falsy argument, else
\* query_string.strip().strip('"\'').strip()
extract_pure_graphql(query_string) ==
  IF query_string = None \/ value(query_string) = "" THEN None
  ELSE Some(strip(strip(strip(value(query_string), Whitespace), PlainQuotes), Whitespace))

\* re.sub(r'\s+', ' ', s)
RECURSIVE collapse_whitespace(_)
collapse_whitespace(s) ==
  IF Len(s) = 0 THEN ""
  ELSE IF Char(s, 1) \in Whitespace
       THEN " " \o collapse_whitespace(SliceFrom(s, span(s, 0, Whitespace)))
       ELSE Slice(s, 0, span_not(s, 0, Whitespace))
            \o collapse_whitespace(SliceFrom(s, span_not(s, 0, Whitespace)))

\* The formatting without its second replace: newlines go the way of all whitespace.
format_graphql_for_mermaid_no_breaks(graphql) ==
  IF graphql = None \/ value(graphql) = "" THEN ""
  ELSE strip(collapse_whitespace(replace_all(value(graphql), "\"", "\\\"")), Whitespace)

\* format_graphql_for_mermaid: '' for a falsy argument, else the three replacements
\* and a strip.
format_graphql_for_mermaid(graphql) ==
  IF graphql = None \/ value(graphql) = "" THEN ""
  ELSE strip(collapse_whitespace(
               replace_all(replace_all(value(graphql), "\"", "\\\""), "\n", "<br/>")),
             Whitespace)

\* CONFIG
CONFIG ==
  [csv_file |-> "wam-general-Jun 30, 2025, 11_50 AM.csv",
   output_file |-> "graphql-queries.mmd",
   rad_name_column |-> "radConfig.name",
   query_column |-> "radContent.synthesize.rule",
   rad_id_column |-> "radContent.id"]

\* row.get(key, default): a row of csv.DictReader is a function from the names of
\* the header to the cells, None for a cell the line is too short to have.
get(row, key, default) == IF key \in DOMAIN row THEN row[key] ELSE default

\* if x:  for a string that may be None
truthy(optional) == optional # None /\ value(optional) # ""

\* f'{x}'
str(optional) == IF optional = None THEN "None" ELSE value(optional)

\* The first loop with every node numbered after its row, not after query_count.
RECURSIVE mermaid_loop_numbered_by_row(_, _, _, _)
mermaid_loop_numbered_by_row(rows, index, mermaid_content, query_count) ==
  IF index = Len(rows)
  THEN [mermaid_content |-> mermaid_content, query_count |-> query_count]
  ELSE LET row == rows[index + 1]
           rad_name == get(row, CONFIG.rad_name_column, Some("Query_" \o ToString(index + 1)))
           query_content == get(row, CONFIG.query_column, None)
           pure_graphql == extract_pure_graphql(query_content)
           node_id == "Q" \o ToString(index + 1)
       IN  IF truthy(query_content) /\ truthy(pure_graphql)
           THEN mermaid_loop_numbered_by_row(rows, index + 1,
                  mermaid_content
                    \o "    " \o node_id \o "[\"<b>" \o str(rad_name) \o "</b><br/><br/>"
                    \o format_graphql_for_mermaid(pure_graphql) \o "\"]\n"
                    \o "    style " \o node_id \o " fill:#f9f9f9,stroke:#333,stroke-width:2px\n",
                  query_count + 1)
           ELSE mermaid_loop_numbered_by_row(rows, index + 1, mermaid_content, query_count)

\* The first loop of convert_to_mermaid from row index on: a node line and a style
\* line for each row whose query cell and cleaned query are both truthy.
RECURSIVE mermaid_loop(_, _, _, _)
mermaid_loop(rows, index, mermaid_content, query_count) ==
  IF index = Len(rows)
  THEN [mermaid_content |-> mermaid_content, query_count |-> query_count]
  ELSE LET row == rows[index + 1]
           rad_name == get(row, CONFIG.rad_name_column, Some("Query_" \o ToString(index + 1)))
           query_content == get(row, CONFIG.query_column, None)
           pure_graphql == extract_pure_graphql(query_content)
           node_id == "Q" \o ToString(query_count + 1)
       IN  IF truthy(query_content) /\ truthy(pure_graphql)
           THEN mermaid_loop(rows, index + 1,
                  mermaid_content
                    \o "    " \o node_id \o "[\"<b>" \o str(rad_name) \o "</b><br/><br/>"
                    \o format_graphql_for_mermaid(pure_graphql) \o "\"]\n"
                    \o "    style " \o node_id \o " fill:#f9f9f9,stroke:#333,stroke-width:2px\n",
                  query_count + 1)
           ELSE mermaid_loop(rows, index + 1, mermaid_content, query_count)

\* The second loop: a subgraph named after the row around the cleaned query.
RECURSIVE alternative_loop(_, _, _, _)
alternative_loop(rows, index, alternative_content, query_count_alt) ==
  IF index = Len(rows) THEN alternative_content
  ELSE LET row == rows[index + 1]
           rad_name == get(row, CONFIG.rad_name_column, Some("Query_" \o ToString(index + 1)))
           query_content == get(row, CONFIG.query_column, None)
           pure_graphql == extract_pure_graphql(query_content)
       IN  IF truthy(query_content) /\ truthy(pure_graphql)
           THEN alternative_loop(rows, index + 1,
                  alternative_content
                    \o "\n    subgraph " \o str(rad_name) \o "\n"
                    \o "        " \o ToString(query_count_alt + 1)
                    \o "[\"" \o Backtick \o value(pure_graphql) \o Backtick \o "\"]\n"
                    \o "    end\n",
                  query_count_alt + 1)
           ELSE alternative_loop(rows, index + 1, alternative_content, query_count_alt)

\* The third loop: a header with the id of the row, or its name when the id is
\* falsy, over the cleaned query in a javascript block.
RECURSIVE simple_loop(_, _, _)
simple_loop(rows, index, simple_format) ==
  IF index = Len(rows) THEN simple_format
  ELSE LET row == rows[index + 1]
           rad_name == get(row, CONFIG.rad_name_column, Some("Query_" \o ToString(index + 1)))
           rad_id == get(row, CONFIG.rad_id_column, Some(""))
           query_content == get(row, CONFIG.query_column, None)
           pure_graphql == extract_pure_graphql(query_content)
           title == IF truthy(rad_id) THEN str(rad_id) ELSE str(rad_name)
       IN  IF truthy(query_content) /\ truthy(pure_graphql)
           THEN simple_loop(rows, index + 1,
                  simple_format
                    \o "## " \o title \o "\n\n"
                    \o FenceOpen \o "\n"
                    \o value(pure_graphql)
                    \o "\n" \o FenceClose \o "\n\n")
           ELSE simple_loop(rows, index + 1, simple_format)

\* The three texts convert_to_mermaid builds from the rows of the CSV file, and the
\* number of queries it reports.
convert_to_mermaid(rows) ==
  LET mermaid == mermaid_loop(rows, 0, "graph TD\n", 0)
  IN  [mermaid_content |-> mermaid.mermaid_content,
       alternative_content |->
         alternative_loop(rows, 0, FenceClose \o "mermaid\ngraph LR\n", 0)
           \o FenceClose \o "\n",
       simple_format |-> simple_loop(rows, 0, "# RAD Queries\n\n"),
       query_count |-> mermaid.query_count]

\* ------------------------------------------------------------------- main()
\* RADFieldAnalyzer(): the attributes __init__ gives a new instance.
RADFieldAnalyzer ==
  [results |-> <<>>, all_fields |-> {}, entity_types |-> {},
   field_variations |-> <<>>, field_by_entity |-> <<>>]

\* The instance after  for name, code in synthesizers: analyze_synthesizer(name, code)
\* on a new instance. The instance before the last section is bound once, as the
\* one object the loop works on.
RECURSIVE analyzer_after(_)
analyzer_after(sections) ==
  IF Len(sections) = 0 THEN RADFieldAnalyzer
  ELSE LET name == sections[Len(sections)][1]
           section == sections[Len(sections)][2]
       IN  CHOOSE after \in
             {[results |-> Append(analyzer.results, analyze_synthesizer(name, section)),
               all_fields |-> all_fields_after(analyzer.all_fields, section),
               entity_types |-> analyzer.entity_types \cup extract_entity_types(section),
               field_variations |->
                 field_variations_after(analyzer.field_variations,
                                        Map(registered_accesses(section), LAMBDA a : a.field)),
               field_by_entity |-> field_by_entity_after(analyzer.field_by_entity, section)] :
              analyzer \in {analyzer_after(SubSeq(sections, 1, Len(sections) - 1))}} : TRUE

\* The report main() gets for the sections parse_rad_file returned.
main_report(sections) ==
  CHOOSE analysis \in
    {generate_comprehensive_report(analyzer.results, analyzer.all_fields,
                                   analyzer.entity_types, analyzer.field_variations) :
     analyzer \in {analyzer_after(sections)}} : TRUE

\* ------------------------------------------------------------------- state
VARIABLES
  n_raw,             \* the raw field string handed to a normalizer
  n_fn,              \* which normalizer is being applied: "none", "deep" or "path"
  n_hist,            \* its successive results, each obtained from the one before
  d_preamble,        \* the markdown file: the text before its first header
  d_blocks,          \* the markdown file: its header blocks, as indexes into HeaderBlocks
  content,           \* the markdown file: its text, as f.read() returns it
  p_py,              \* what parse_rad_file returned for content
  p_js,              \* what parseSynthesizers returned for content
  construct,         \* the entityPick call a code snippet is written from
  code,              \* the code snippet handed to the extractors
  extraction,        \* which extractor ran on code, and what it returned
  synthesizers,      \* main(): the (name, code) pairs parse_rad_file returned
  results,           \* RADFieldAnalyzer.results
  all_fields,        \* RADFieldAnalyzer.all_fields
  entity_types,      \* RADFieldAnalyzer.entity_types
  field_variations,  \* RADFieldAnalyzer.field_variations
  field_by_entity,   \* RADFieldAnalyzer.field_by_entity
  report,            \* main(): the report of generate_comprehensive_report
  exported,          \* main(): the format asked for and what export_report returned
  out,               \* the report script run last on the JSON report, and its output
  previous,          \* the sections the analyzer constructed before this one analysed
  fs,                \* the files the scripts read: path -> content, for those that exist
  run,               \* the script run last from the command line, and how it ended
  c_query,           \* the argument handed to the two functions of the converter
  c_pure,            \* what extract_pure_graphql returned for it
  c_formatted,       \* what format_graphql_for_mermaid returned for it
  c_analysis,        \* the analysis handed to calculate_complexity_score
  c_complexity       \* what calculate_complexity_score returned for it

normVars == <<n_raw, n_fn, n_hist>>
parseVars == <<d_preamble, d_blocks, content, p_py, p_js>>
extractVars == <<construct, code, extraction>>
analyzerVars == <<results, all_fields, entity_types, field_variations, field_by_entity>>
pipelineVars == <<synthesizers, report, exported, out>>
instanceVars == <<previous>>
fileVars == <<fs, run>>
callVars == <<c_query, c_pure, c_formatted, c_analysis, c_complexity>>
vars == <<normVars, parseVars, extractVars, analyzerVars, pipelineVars,
          instanceVars, fileVars, callVars>>

\* A call that has not been made, and the value a call returned.
NotRun == [ran |-> FALSE, out |-> <<>>]
Returned(v) == [ran |-> TRUE, out |-> v]

\* RADFieldAnalyzer.__init__
NewAnalyzer ==
  /\ results = <<>>
  /\ all_fields = {}
  /\ entity_types = {}
  /\ field_variations = <<>>
  /\ field_by_entity = <<>>

IdleExtractors ==
  /\ construct = <<>>
  /\ code = ""
  /\ extraction = NotRun

IdlePipeline ==
  /\ synthesizers = <<>>
  /\ report = NotRun
  /\ exported = NotRun
  /\ out = NotRun

\* No analyzer was constructed before this one.
FirstInstance == previous = <<>>

\* No file is there and no script was run from the command line.
IdleScripts ==
  /\ fs = <<>>
  /\ run = NotRun

\* No call of the converter's functions was made.
IdleCalls ==
  /\ c_query = <<>>
  /\ c_pure = NotRun
  /\ c_formatted = NotRun
  /\ c_analysis = <<>>
  /\ c_complexity = NotRun

\* --------------------------------------------------- inputs of the normalizers
Keys(table) == {table[i][1] : i \in 1..Len(table)}

\* Raw strings that are in neither table: unseen and known prefixes, quoted and
\* padded literals, a doubled prefix, a longer path under a stage-1 key.
OtherRawFields ==
  { "foo.bar", "profile.newThing", "features.newThing", "vnextAccount.newThing",
    "wsbvnext.newThing", "mktgasst.newThing", "'accountId'", " \"features.published\" ",
    "~gem.hasSent~", "features.features.x", "vnextAccount.wsbvnext.id",
    "entitlementData.currentPlan", "vnextAccount.billing.commitment.term", "" }

RawFields == Keys(deep_mappings) \cup Keys(normalizations) \cup OtherRawFields

IdleNormalizers ==
  /\ n_raw = ""
  /\ n_fn = "none"
  /\ n_hist = <<>>

\* The argument of the next application: the raw field, then the last result.
NextArgument == IF Len(n_hist) = 0 THEN n_raw ELSE n_hist[Len(n_hist)]

\* UniqueDataAnalyzer.normalize_field_deeply applied once more.
NormalizeFieldDeeply ==
  /\ n_fn \in {"none", "deep"}
  /\ Len(n_hist) < MaxApply
  /\ n_fn' = "deep"
  /\ n_hist' = Append(n_hist, normalize_field_deeply(NextArgument))
  /\ UNCHANGED <<n_raw, parseVars, extractVars, analyzerVars, pipelineVars>>
  /\ UNCHANGED <<instanceVars, fileVars, callVars>>

\* RADFieldAnalyzer.normalize_field_path applied once more.
NormalizeFieldPath ==
  /\ n_fn \in {"none", "path"}
  /\ Len(n_hist) < MaxApply
  /\ n_fn' = "path"
  /\ n_hist' = Append(n_hist, normalize_field_path(NextArgument))
  /\ field_variations' = normalize_field_path_variations(field_variations, NextArgument)
  /\ UNCHANGED <<n_raw, parseVars, extractVars, pipelineVars>>
  /\ UNCHANGED <<results, all_fields, entity_types, field_by_entity>>
  /\ UNCHANGED <<instanceVars, fileVars, callVars>>

\* ----------------------------------------------------- inputs of the parsers
\* Text before the first header: none, a title, and an introduction that shows a
\* complete javascript code block of its own.
Preambles ==
  { "",
    "# RAD synthesizers\n\n",
    "Example:\n" \o FenceOpen \o "\nsample()\n" \o FenceClose \o "\n\n" }

\* Header blocks a file is made of. complete: the header is followed by an opening
\* javascript fence and a closing fence of its own.
HeaderBlocks ==
  << [text |-> "## Task-A\n\n" \o FenceOpen \o "\nf(a)\n" \o FenceClose \o "\n\n",
      complete |-> TRUE, code |-> "f(a)"],
     [text |-> "## Task B\n" \o FenceOpen \o "\n  g(b)\n" \o FenceClose \o "\n",
      complete |-> TRUE, code |-> "g(b)"],
     [text |-> "### Task-C\n" \o FenceOpen \o "\nh(c)\n" \o FenceClose \o "\n",
      complete |-> TRUE, code |-> "h(c)"],
     [text |-> "## Task-D\nno code here\n",
      complete |-> FALSE, code |-> ""],
     [text |-> "## Task-E\n" \o FenceOpen \o "\nk(e)\n",
      complete |-> FALSE, code |-> ""],
     [text |-> "## Task-F\n" \o FenceClose \o "\nplain\n" \o FenceClose \o "\n",
      complete |-> FALSE, code |-> ""],
     [text |-> "## Task-G\n" \o FenceOpen \o "\nm(g)\n\n" \o FenceOpen \o "\nn(g)\n" \o FenceClose \o "\n",
      complete |-> FALSE, code |-> ""] >>

RECURSIVE Concat(_)
Concat(blocks) ==
  IF Len(blocks) = 0 THEN "" ELSE HeaderBlocks[Head(blocks)].text \o Concat(Tail(blocks))

IdleParsers ==
  /\ d_preamble = ""
  /\ d_blocks = <<>>
  /\ content = ""
  /\ p_py = NotRun
  /\ p_js = NotRun

\* RADFieldAnalyzer.parse_rad_file(filepath) on the file.
ParseRadFile ==
  /\ ~p_py.ran
  /\ p_py' = Returned(parse_rad_file(content))
  /\ UNCHANGED <<normVars, d_preamble, d_blocks, content, p_js>>
  /\ UNCHANGED <<extractVars, analyzerVars, pipelineVars>>
  /\ UNCHANGED <<instanceVars, fileVars, callVars>>

\* RADAnalyzer.parseSynthesizers(text) on the same text.
ParseSynthesizers ==
  /\ ~p_js.ran
  /\ p_js' = Returned(parseSynthesizers(content))
  /\ UNCHANGED <<normVars, d_preamble, d_blocks, content, p_py>>
  /\ UNCHANGED <<extractVars, analyzerVars, pipelineVars>>
  /\ UNCHANGED <<instanceVars, fileVars, callVars>>

\* --------------------------------------------------- inputs of the extractors
\* An entityPick call as written in a section: its variable, the literals of its
\* list, the quote around each, the separator between them, whether the list and the
\* call are closed, and the code that follows the call.
PickLiterals == <<"accountId", "entitlementData", "", "owner's", "rows[0])">>

\* Code after the call, with the literals of the complete entityPick calls in it.
Tails ==
  << [text |-> "", fields |-> <<>>],
     [text |-> ";\nreturn foo(['c']);", fields |-> <<>>],
     [text |-> ";\nentityPick(other, ['id']);", fields |-> <<"id">>] >>

Constructs ==
  [var : {"entity", "wsbvSite"},
   items : UNION {[1..n -> 1..Len(PickLiterals)] : n \in 0..MaxItems},
   quote : QuoteChars,
   sep : {",", ", "},
   closed : BOOLEAN,
   tail : 1..Len(Tails)]

\* The text of the call and what follows it.
snippet(c) ==
  LET RECURSIVE list(_)
      list(k) == IF k = 0 THEN ""
                 ELSE list(k - 1) \o (IF k > 1 THEN c.sep ELSE "")
                      \o c.quote \o PickLiterals[c.items[k]] \o c.quote
  IN  "entityPick(" \o c.var \o ", [" \o list(Len(c.items))
      \o (IF c.closed THEN "])" ELSE ")") \o Tails[c.tail].text

\* RADFieldAnalyzer.extract_entity_pick_fields(code) on the snippet.
ExtractEntityPickFields ==
  /\ ~extraction.ran
  /\ extraction' = Returned(extract_entity_pick_fields(code))
  /\ UNCHANGED <<normVars, parseVars, construct, code, analyzerVars, pipelineVars>>
  /\ UNCHANGED <<instanceVars, fileVars, callVars>>

\* The variables two entityPick calls of one section are written with, the code
\* before the first call and the code after the second.
EntityVars == <<"entity", "site", "wsbvSite", "mktgUce", "UCEItem", "b">>

Preludes ==
  << "",
     "profile.entities.filter(entity => entity.type === 'wsbvnext')\n  .map(site => ",
     "if (site.type === \"mktgasst\" && b.type  ===  ~uce~) return ",
     "entities.filter(entity => entity.type === 'uce' || entity.type === 'wsbvnext');\n" >>

Epilogues ==
  << "",
     ".filter(entity => entity.type === 'mktgasst')",
     ".filter(x => wsbvSite.type === 'appt' && entity.type\n=== 'late' /* site */)" >>

TypedConstructs ==
  [first : 1..Len(EntityVars), second : 1..Len(EntityVars),
   prelude : 1..Len(Preludes), epilogue : 1..Len(Epilogues)]

\* The text of the section: two fields picked from the first variable, then one
\* from the second.
typed_snippet(c) ==
  Preludes[c.prelude]
  \o "entityPick(" \o EntityVars[c.first] \o ", ['accountId', 'id']), "
  \o "entityPick(" \o EntityVars[c.second] \o ", ['domainName'])"
  \o Epilogues[c.epilogue]

\* ---------------------------------------- inputs of analyze_return_pattern
\* Return statements, each on a line of its own, with the patterns it matches.
ReturnStatements ==
  << [text |-> "return []", matches |-> {"empty_array"}],
     [text |-> "  if (!site) return[];", matches |-> {"empty_array"}],
     [text |-> "return [ { type: 'none' }]", matches |-> {"static_none"}],
     [text |-> "return\n[{type  :\"none\", ventureId}];", matches |-> {"static_none"}],
     [text |-> "return [{\n  ...entityData[0],\n  tabPath\n}]", matches |-> {"spread_operator"}],
     [text |-> "return [{ ...entityData[0], ventureId }]",
      matches |-> {"spread_operator", "venture_based"}],
     [text |-> "return [{ ventureId: profile.request.query.ventureId }]",
      matches |-> {"venture_based"}],
     [text |-> "return entityPick(site, ['accountId'])", matches |-> {}],
     [text |-> "return [ ]", matches |-> {}],
     [text |-> "return [{ type: 'None' }, {\n  ventureId }]", matches |-> {}] >>

\* A rule with one return statement, or with two.
ReturnConstructs ==
  [first : 1..Len(ReturnStatements), second : 0..Len(ReturnStatements)]

returning_snippet(c) ==
  "profile => {\n" \o ReturnStatements[c.first].text \o "\n"
  \o (IF c.second = 0 THEN "" ELSE "else " \o ReturnStatements[c.second].text \o "\n")
  \o "}"

\* ------------------------------------------------------------------ main()
\* Sections of a RAD file as parse_rad_file returns them: (name, code) pairs.
SectionPool ==
  << <<"account-info", "entityPick(entity, ['accountId','entitlementData'])">>,
     <<"published-site",
       "profile.entities\n  .filter(site => site.type === 'wsbvnext')\n"
       \o "  .map(site => entityPick(site, [\"accountId\", 'features.published', ~accountId~]))\n"
       \o "  .filter(site => site.features.published === true)">>,
     <<"billing-check",
       "const { billing, gem: g } = vnextAccount;\n"
       \o "if (vnextAccount.billing.commitment === 'monthly') return [];\n"
       \o "return [entityPick(vnextAccount, ['vnextAccount.billing.commitment', "
       \o "'vnextAccount.account.paymentStatus'])];">>,
     <<"blog-links",
       "[entityPick(site, ['links.blog']), entityPick(site, ['links.blog', 'links.preview']), "
       \o "site.links.blog ?? null]">>,
     <<"preview-link", "entityPick(site, ['links.preview'])">>,
     <<"email-upsell",
       "joinEntities(profile.entities, (a, b) => (a.type === 'mktgasst' && "
       \o "b.type === 'wsbvnext' && a.accountId === b.accountId))\n"
       \o "  .map(([a, b]) => entityPick(b, ['entitlementData.current.commerce', 'gem.hasSent']))">>,
     <<"venture-home", "return [{ ventureId: profile.request.query.ventureId }]">>,
     <<"account-info", "">> >>

\* A section that picks 21 fields, one more than most_common(20) keeps.
WideSection ==
  <<"site-snapshot",
    "entityPick(site, ['a','b','c','d','e','f','g','h','i','j','k','l','m','n','o',"
    \o "'p','q','r','s','t','u'])">>
\* A section without a join whose score is 5: 11 fields, two entity types and a
\* condition; and a section that returns [] before it joins.
DigestSection ==
  <<"site-digest",
    "profile.entities\n  .filter(e => e.type === 'wsbvnext' || e.type === 'mktgasst')\n"
    \o "  .map(e => e.live ? entityPick(e, ['a','b','c','d','e','f','g','h','i','j']) : null)">>
GuardedJoinSection ==
  <<"guarded-join",
    "if (!profile.entities.length) return [];\n"
    \o "return joinEntities(profile.entities, (a, b) => (a.type === 'mktgasst' && "
    \o "b.type === 'wsbvnext' && a.accountId === b.accountId))">>

\* The sections of the files these three are found in.
WidePool ==
  <<SectionPool[5], SectionPool[7], WideSection, DigestSection, GuardedJoinSection>>

\* for name, code in synthesizers: analyzer.analyze_synthesizer(name, code), one turn
\* of the loop: the analysis is appended and the analyzer's sets grow.
AnalyzeSynthesizer ==
  /\ ~report.ran
  /\ Len(results) < Len(synthesizers)
  /\ LET name == synthesizers[Len(results) + 1][1]
         section == synthesizers[Len(results) + 1][2]
     IN  /\ results' = Append(results, analyze_synthesizer(name, section))
         /\ all_fields' = all_fields_after(all_fields, section)
         /\ entity_types' = entity_types \cup extract_entity_types(section)
         /\ field_variations' =
              field_variations_after(field_variations,
                                     Map(registered_accesses(section), LAMBDA a : a.field))
         /\ field_by_entity' = field_by_entity_after(field_by_entity, section)
  /\ UNCHANGED <<normVars, parseVars, extractVars, pipelineVars>>
  /\ UNCHANGED <<instanceVars, fileVars, callVars>>

\* report = analyzer.generate_comprehensive_report(), after the loop.
GenerateComprehensiveReport ==
  /\ ~report.ran
  /\ Len(results) = Len(synthesizers)
  /\ report' = Returned(generate_comprehensive_report(results, all_fields, entity_types,
                                                      field_variations))
  /\ UNCHANGED <<normVars, parseVars, extractVars, analyzerVars, synthesizers, exported, out>>
  /\ UNCHANGED <<instanceVars, fileVars, callVars>>

\* The sections another run of main() in the same process may be given.
InstancePool == <<SectionPool[2], SectionPool[7]>>

SectionLists(pool) ==
  UNION {[1..n -> {pool[i] : i \in DOMAIN pool}] : n \in 0..MaxSections}

\* A second analyzer whose all_fields is the set of the first: what a class
\* attribute in place of the instance attribute of __init__ would give.
NewInstance_shared_fields ==
  /\ previous' = SubSeq(synthesizers, 1, Len(results))
  /\ synthesizers' \in SectionLists(InstancePool)
  /\ results' = RADFieldAnalyzer.results
  /\ entity_types' = RADFieldAnalyzer.entity_types
  /\ field_variations' = RADFieldAnalyzer.field_variations
  /\ field_by_entity' = RADFieldAnalyzer.field_by_entity
  /\ report' = NotRun
  /\ UNCHANGED <<normVars, parseVars, extractVars, all_fields, exported, out>>
  /\ UNCHANGED <<fileVars, callVars>>

\* analyzer = RADFieldAnalyzer() once more, for other sections: main() run again in
\* the process that holds the analyzer of the run before.
NewInstance ==
  /\ previous' = SubSeq(synthesizers, 1, Len(results))
  /\ synthesizers' \in SectionLists(InstancePool)
  /\ results' = RADFieldAnalyzer.results
  /\ all_fields' = RADFieldAnalyzer.all_fields
  /\ entity_types' = RADFieldAnalyzer.entity_types
  /\ field_variations' = RADFieldAnalyzer.field_variations
  /\ field_by_entity' = RADFieldAnalyzer.field_by_entity
  /\ report' = NotRun
  /\ UNCHANGED <<normVars, parseVars, extractVars, exported, out>>
  /\ UNCHANGED <<fileVars, callVars>>

\* output = analyzer.export_report(report, args.format)
ExportReport(format) ==
  /\ report.ran
  /\ ~exported.ran
  /\ exported' = Returned([format |-> format, output |-> export_report(report.out, format)])
  /\ UNCHANGED <<normVars, parseVars, extractVars, analyzerVars, synthesizers, report, out>>
  /\ UNCHANGED <<instanceVars, fileVars, callVars>>

\* The JSON report a report script loads.
JsonReport == exported.out.output

\* A report script run on the JSON report: what it rendered, or the exception
\* that ended it. One script is run on each exported report.
RunScript(script, rendered) ==
  /\ exported.ran
  /\ exported.out.format = "json"
  /\ ~out.ran
  /\ out' = Returned([script |-> script, rendered |-> rendered])
  /\ UNCHANGED <<normVars, parseVars, extractVars, analyzerVars, synthesizers, report, exported>>
  /\ UNCHANGED <<instanceVars, fileVars, callVars>>

\* analyze_unique_data_fields.py
UniqueDataFields ==
  LET analyzed == analyze_report(JsonReport)
  IN  RunScript("analyze_unique_data_fields",
                [raised |-> "",
                 all_fields |-> analyzed,
                 report |-> generate_unique_data_report(analyzed),
                 overlap |-> generate_data_overlap_matrix(analyzed)])

\* generate_data_dictionary.py
DataDictionary ==
  LET built == build_dictionary(JsonReport)
  IN  RunScript("generate_data_dictionary",
                [raised |-> "",
                 data_dictionary |-> built,
                 dictionary |-> generate_markdown_dictionary(built),
                 requirements |-> generate_synthesizer_requirements(JsonReport)])

\* create_data_summary.py
VisualSummary == RunScript("create_data_summary", create_visual_summary(JsonReport))

\* consolidated_data_list.py
ConsolidatedList ==
  RunScript("consolidated_data_list",
            [raised |-> ""] @@ create_consolidated_list(JsonReport))

\* visualize_rad_patterns.py
VisualizePatterns == RunScript("visualize_rad_patterns", generate_full_report(JsonReport))

\* ------------------------------------------------ the scripts and their files
\* The most rows a CSV file has.
MaxRows == 2

\* One line of the CSV export: the cells under the three columns the converter reads.
Cells(rad_name, rad_id, query_content) ==
  (CONFIG.rad_name_column :> rad_name) @@ (CONFIG.rad_id_column :> rad_id)
    @@ (CONFIG.query_column :> query_content)

\* Lines of the export: a quoted rule over several lines, a rule without an id, a
\* line without a rule, a line whose rule is nothing but quotes and blanks, and a
\* rule whose name and id cells are both empty.
CsvLines ==
  <<Cells(Some("published-site/blog-links"), Some("rad-101"),
          Some("\"profile => {\n  return [{ blog: profile.links.blog, count: profile.links.blog.length }];\n}\"")),
    Cells(Some("venture-home"), Some(""),
          Some("  profile => entityPick(profile, ['ventureId', \"owner\"])\n")),
    Cells(Some("draft"), Some("rad-103"), Some("")),
    Cells(Some("blank"), None, Some(" \"'\" ")),
    Cells(Some(""), Some(""), Some("profile => []"))>>

\* The headers an export has: the three columns, or two of them with the rule.
CsvHeaders ==
  {{CONFIG.rad_name_column, CONFIG.rad_id_column, CONFIG.query_column},
   {CONFIG.rad_name_column, CONFIG.query_column},
   {CONFIG.rad_id_column, CONFIG.query_column}}

\* list(csv.DictReader(file)) for the exports of at most MaxRows lines.
CsvFiles ==
  UNION {{[i \in 1..n |-> [column \in header |-> lines[i][column]]] :
            lines \in [1..n -> {CsvLines[k] : k \in DOMAIN CsvLines}],
            header \in CsvHeaders} :
         n \in 0..MaxRows}

\* The three files the converter writes.
mermaid_file == CONFIG.output_file
alternative_file == replace_all(CONFIG.output_file, ".mmd", "-alternative.mmd")
simple_file == replace_all(CONFIG.output_file, ".mmd", "-simple.md")

\* The command line of the analyzer: the markdown file of the converter, -f json and
\* the file the report scripts are then given.
args == [input |-> simple_file, format |-> "json", output |-> "rad-analysis.json"]

\* open(path, 'w') and f.write(text) for each of the paths.
written(files, paths, text) ==
  [path \in DOMAIN files \cup paths |-> IF path \in paths THEN text ELSE files[path]]

\* How a script ended: whether open() found its input file, the exception that
\* ended it ("" when none did), its exit status, the line it printed on its way
\* out, the files it wrote and, for a report script, what it wrote to them.
Ended(script, found, raised, printed, paths, rendered) ==
  Returned([script |-> script, found |-> found, raised |-> raised,
            exit |-> IF raised = "" THEN 0 ELSE 1,
            printed |-> printed, written |-> paths, rendered |-> rendered])

\* The converter with no handler for FileNotFoundError around its open().
ConvertToMermaid_uncaught ==
  /\ IF CONFIG.csv_file \in DOMAIN fs
     THEN LET converted == convert_to_mermaid(fs[CONFIG.csv_file])
          IN  /\ fs' = written(written(written(fs, {mermaid_file}, converted.mermaid_content),
                                       {alternative_file}, converted.alternative_content),
                               {simple_file}, converted.simple_format)
              /\ run' = Ended("graphql-to-mermaid-python", TRUE, "",
                              "- " \o simple_file \o " (Simple markdown format)",
                              {mermaid_file, alternative_file, simple_file}, <<>>)
     ELSE /\ fs' = fs
          /\ run' = Ended("graphql-to-mermaid-python", FALSE, "FileNotFoundError", "", {}, <<>>)
  /\ UNCHANGED <<normVars, parseVars, extractVars, analyzerVars, pipelineVars>>
  /\ UNCHANGED <<instanceVars, callVars>>

\* python graphql-to-mermaid-python.py: the three files are written when the CSV
\* file is there; when it is not, the handler of FileNotFoundError prints a line
\* and the script ends as after a conversion.
ConvertToMermaid ==
  /\ IF CONFIG.csv_file \in DOMAIN fs
     THEN LET converted == convert_to_mermaid(fs[CONFIG.csv_file])
          IN  /\ fs' = written(written(written(fs, {mermaid_file}, converted.mermaid_content),
                                       {alternative_file}, converted.alternative_content),
                               {simple_file}, converted.simple_format)
              /\ run' = Ended("graphql-to-mermaid-python", TRUE, "",
                              "- " \o simple_file \o " (Simple markdown format)",
                              {mermaid_file, alternative_file, simple_file}, <<>>)
     ELSE /\ fs' = fs
          /\ run' = Ended("graphql-to-mermaid-python", FALSE, "",
                          "Error: File not found: " \o CONFIG.csv_file, {}, <<>>)
  /\ UNCHANGED <<normVars, parseVars, extractVars, analyzerVars, pipelineVars>>
  /\ UNCHANGED <<instanceVars, callVars>>

\* python analyze_rad_fields.py args.input -f json -o args.output: main() from
\* parse_rad_file, whose open() nothing guards, to the write of the report.
AnalyzeRadFields ==
  /\ IF args.input \in DOMAIN fs
     THEN \E sections \in {parse_rad_file(fs[args.input])} :
            \E output \in {export_report(main_report(sections), args.format)} :
              /\ fs' = written(fs, {args.output}, output)
              /\ run' = Ended("analyze_rad_fields", TRUE, "",
                              "Report saved to: " \o args.output, {args.output}, <<>>)
     ELSE /\ fs' = fs
          /\ run' = Ended("analyze_rad_fields", FALSE, "FileNotFoundError", "", {}, <<>>)
  /\ UNCHANGED <<normVars, parseVars, extractVars, analyzerVars, pipelineVars>>
  /\ UNCHANGED <<instanceVars, callVars>>

\* main() of a report script given args.output of the analyzer: open() and
\* json.load, the rendering, and the write of the files named by -o; an exception
\* of the rendering ends the script before it writes. No script reads the files a
\* report script writes: they are kept with the run, not in fs.
ReportScriptMain(script, rendered, paths, printed) ==
  /\ run' = IF args.output \in DOMAIN fs
            THEN IF rendered.raised = ""
                 THEN Ended(script, TRUE, "", printed, paths, rendered)
                 ELSE Ended(script, TRUE, rendered.raised, "", {}, <<>>)
            ELSE Ended(script, FALSE, "FileNotFoundError", "", {}, <<>>)
  /\ UNCHANGED fs
  /\ UNCHANGED <<normVars, parseVars, extractVars, analyzerVars, pipelineVars>>
  /\ UNCHANGED <<instanceVars, callVars>>

\* python analyze_unique_data_fields.py args.output
AnalyzeUniqueDataFieldsMain ==
  ReportScriptMain("analyze_unique_data_fields",
                   LET analyzed == analyze_report(fs[args.output])
                   IN  [raised |-> "",
                        all_fields |-> analyzed,
                        report |-> generate_unique_data_report(analyzed),
                        overlap |-> generate_data_overlap_matrix(analyzed)],
                   {"unique-data-fields.md", "unique-data-fields.csv"},
                   "CSV summary saved to: unique-data-fields.csv")

\* python generate_data_dictionary.py args.output
GenerateDataDictionaryMain ==
  ReportScriptMain("generate_data_dictionary",
                   LET built == build_dictionary(fs[args.output])
                   IN  [raised |-> "",
                        data_dictionary |-> built,
                        dictionary |-> generate_markdown_dictionary(built),
                        requirements |-> generate_synthesizer_requirements(fs[args.output])],
                   {"rad-data-dictionary.md", "rad-data-dictionary.csv"},
                   "CSV export saved to: rad-data-dictionary.csv")

\* python create_data_summary.py args.output
CreateDataSummaryMain ==
  ReportScriptMain("create_data_summary", create_visual_summary(fs[args.output]),
                   {"rad-data-visual-summary.md"},
                   "Visual summary saved to: rad-data-visual-summary.md")

\* python consolidated_data_list.py args.output
ConsolidatedDataListMain ==
  ReportScriptMain("consolidated_data_list",
                   [raised |-> ""] @@ create_consolidated_list(fs[args.output]),
                   {"consolidated-data-fields.md"},
                   "Consolidated list saved to: consolidated-data-fields.md")

\* python visualize_rad_patterns.py args.output
VisualizeRadPatternsMain ==
  ReportScriptMain("visualize_rad_patterns", generate_full_report(fs[args.output]),
                   {"rad-visualization-report.md"},
                   "Visualization report saved to: rad-visualization-report.md")

\* --------------------------------------- inputs of the converter's functions
\* Query cells: None, and texts made of what may stand at the two ends of a cell
\* (nothing, whitespace, quotes of the three kinds) around a rule function.
QueryEnds == {"", " ", "\n  ", "\"", "'", "~", "\" '", "\t\"\""}

QueryCores ==
  { "",
    "profile => []",
    "profile => {\n  return [\"test's\", ~template~];\r\n}",
    "a\n\n \t b<br/>c" }

QueryStrings ==
  {None} \cup {Some(lead \o core \o trail) :
                 lead \in QueryEnds, core \in QueryCores, trail \in {"", " ", "\"", "'\n", "~"}}

\* pure_graphql = extract_pure_graphql(query_content)
ExtractPureGraphql ==
  /\ ~c_pure.ran
  /\ c_pure' = Returned(extract_pure_graphql(c_query))
  /\ UNCHANGED <<c_query, c_formatted, c_analysis, c_complexity>>
  /\ UNCHANGED <<normVars, parseVars, extractVars, analyzerVars, pipelineVars>>
  /\ UNCHANGED <<instanceVars, fileVars>>

\* formatted_query = format_graphql_for_mermaid(...), of the cell as it is.
FormatGraphqlForMermaid ==
  /\ ~c_formatted.ran
  /\ c_formatted' = Returned(format_graphql_for_mermaid(c_query))
  /\ UNCHANGED <<c_query, c_pure, c_analysis, c_complexity>>
  /\ UNCHANGED <<normVars, parseVars, extractVars, analyzerVars, pipelineVars>>
  /\ UNCHANGED <<instanceVars, fileVars>>

\* ------------------------------------ inputs of calculate_complexity_score
\* The figures of an analysis on either side of each threshold.
FieldCounts == {0, 10, 11}
TypeCounts == {0, 1, 2}
CodeLengths == {0, 1000, 1001}

\* A set of n names.
Names(stem, n) == {stem \o ToString(i) : i \in 1..n}

\* The entries of an analysis that calculate_complexity_score reads.
Analyses ==
  {[join_info |-> [uses_join |-> uses_join],
    all_fields |-> Names("field", fields),
    entity_types |-> Names("type", types),
    code_length |-> length,
    conditional_logic |-> conditional] :
     uses_join \in BOOLEAN, fields \in FieldCounts, types \in TypeCounts,
     length \in CodeLengths, conditional \in BOOLEAN}

\* analysis['complexity'] = self.calculate_complexity_score(analysis)
CalculateComplexityScore ==
  /\ ~c_complexity.ran
  /\ c_complexity' = Returned(calculate_complexity_score(c_analysis))
  /\ UNCHANGED <<c_query, c_pure, c_formatted, c_analysis>>
  /\ UNCHANGED <<normVars, parseVars, extractVars, analyzerVars, pipelineVars>>
  /\ UNCHANGED <<instanceVars, fileVars>>

\* ------------------------------------------------------------ specifications
\* One raw field string, normalized again and again by one of the two normalizers.
InitNorm ==
  /\ n_raw \in RawFields
  /\ n_fn = "none"
  /\ n_hist = <<>>
  /\ IdleParsers
  /\ IdleExtractors
  /\ NewAnalyzer
  /\ IdlePipeline
  /\ FirstInstance
  /\ IdleScripts
  /\ IdleCalls

NextNorm ==
  \/ NormalizeFieldDeeply
  \/ NormalizeFieldPath

SpecNorm == InitNorm /\ [][NextNorm]_vars

\* One markdown file, split into sections by each of the two parsers.
InitParse ==
  /\ IdleNormalizers
  /\ d_preamble \in Preambles
  /\ d_blocks \in UNION {[1..n -> 1..Len(HeaderBlocks)] : n \in 0..MaxHeaders}
  /\ content = d_preamble \o Concat(d_blocks)
  /\ p_py = NotRun
  /\ p_js = NotRun
  /\ IdleExtractors
  /\ NewAnalyzer
  /\ IdlePipeline
  /\ FirstInstance
  /\ IdleScripts
  /\ IdleCalls

NextParse ==
  \/ ParseRadFile
  \/ ParseSynthesizers

SpecParse == InitParse /\ [][NextParse]_vars

\* One code snippet with an entityPick call, handed to the entityPick extractor and,
\* as a section of its own, to analyze_synthesizer.
InitExtract ==
  /\ IdleNormalizers
  /\ IdleParsers
  /\ construct \in Constructs
  /\ code = snippet(construct)
  /\ extraction = NotRun
  /\ NewAnalyzer
  /\ synthesizers = << <<"snippet", code>> >>
  /\ report = NotRun
  /\ exported = NotRun
  /\ out = NotRun
  /\ FirstInstance
  /\ IdleScripts
  /\ IdleCalls

NextExtract ==
  \/ ExtractEntityPickFields
  \/ AnalyzeSynthesizer

SpecExtract == InitExtract /\ [][NextExtract]_vars

\* One section with two entityPick calls among type comparisons, handed to the
\* entityPick extractor and, as a section of its own, to analyze_synthesizer.
InitTyped ==
  /\ IdleNormalizers
  /\ IdleParsers
  /\ construct \in TypedConstructs
  /\ code = typed_snippet(construct)
  /\ extraction = NotRun
  /\ NewAnalyzer
  /\ synthesizers = << <<"snippet", code>> >>
  /\ report = NotRun
  /\ exported = NotRun
  /\ out = NotRun
  /\ FirstInstance
  /\ IdleScripts
  /\ IdleCalls

SpecTyped == InitTyped /\ [][NextExtract]_vars

\* One rule with one or two return statements, analysed as a section of its own.
InitReturning ==
  /\ IdleNormalizers
  /\ IdleParsers
  /\ construct \in ReturnConstructs
  /\ code = returning_snippet(construct)
  /\ extraction = NotRun
  /\ NewAnalyzer
  /\ synthesizers = << <<"snippet", code>> >>
  /\ report = NotRun
  /\ exported = NotRun
  /\ out = NotRun
  /\ FirstInstance
  /\ IdleScripts
  /\ IdleCalls

SpecReturning == InitReturning /\ [][AnalyzeSynthesizer]_vars

\* One run of the analyzer over the sections of a file, then the report scripts on
\* its JSON report.
Init ==
  /\ IdleNormalizers
  /\ IdleParsers
  /\ IdleExtractors
  /\ NewAnalyzer
  /\ synthesizers \in UNION {[1..n -> {SectionPool[i] : i \in DOMAIN SectionPool}] :
                               n \in 0..MaxSections}
  /\ report = NotRun
  /\ exported = NotRun
  /\ out = NotRun
  /\ FirstInstance
  /\ IdleScripts
  /\ IdleCalls

Next ==
  \/ AnalyzeSynthesizer
  \/ GenerateComprehensiveReport
  \/ \E format \in {"json", "markdown", "csv"} : ExportReport(format)
  \/ UniqueDataFields
  \/ DataDictionary
  \/ VisualSummary
  \/ ConsolidatedList
  \/ VisualizePatterns

Spec == Init /\ [][Next]_vars

\* The same run of the analyzer and of the report scripts, over files with a
\* section of more than 20 fields, one of score 5 and one that returns [] and joins.
InitWide ==
  /\ IdleNormalizers
  /\ IdleParsers
  /\ IdleExtractors
  /\ NewAnalyzer
  /\ synthesizers \in UNION {[1..n -> {WidePool[i] : i \in DOMAIN WidePool}] :
                               n \in 0..MaxSections}
  /\ report = NotRun
  /\ exported = NotRun
  /\ out = NotRun
  /\ FirstInstance
  /\ IdleScripts
  /\ IdleCalls

SpecWide == InitWide /\ [][Next]_vars

\* Analyzers constructed one after the other in one process, each for its own file.
InitInstances ==
  /\ IdleNormalizers
  /\ IdleParsers
  /\ IdleExtractors
  /\ NewAnalyzer
  /\ synthesizers \in SectionLists(InstancePool)
  /\ report = NotRun
  /\ exported = NotRun
  /\ out = NotRun
  /\ FirstInstance
  /\ IdleScripts
  /\ IdleCalls

NextInstances ==
  \/ AnalyzeSynthesizer
  \/ GenerateComprehensiveReport
  \/ NewInstance

SpecInstances == InitInstances /\ [][NextInstances]_vars

\* One query cell, handed to each of the two functions of the converter.
InitCalls ==
  /\ IdleNormalizers
  /\ IdleParsers
  /\ IdleExtractors
  /\ NewAnalyzer
  /\ IdlePipeline
  /\ FirstInstance
  /\ IdleScripts
  /\ c_query \in QueryStrings
  /\ c_pure = NotRun
  /\ c_formatted = NotRun
  /\ c_analysis = <<>>
  /\ c_complexity = NotRun

NextCalls ==
  \/ ExtractPureGraphql
  \/ FormatGraphqlForMermaid

SpecCalls == InitCalls /\ [][NextCalls]_vars

\* One analysis, scored by calculate_complexity_score.
InitScore ==
  /\ IdleNormalizers
  /\ IdleParsers
  /\ IdleExtractors
  /\ NewAnalyzer
  /\ IdlePipeline
  /\ FirstInstance
  /\ IdleScripts
  /\ c_query = <<>>
  /\ c_pure = NotRun
  /\ c_formatted = NotRun
  /\ c_analysis \in Analyses
  /\ c_complexity = NotRun

SpecScore == InitScore /\ [][CalculateComplexityScore]_vars

\* The scripts run from the command line, in any order, in a directory that has
\* the CSV export or does not.
InitFiles ==
  /\ IdleNormalizers
  /\ IdleParsers
  /\ IdleExtractors
  /\ NewAnalyzer
  /\ IdlePipeline
  /\ FirstInstance
  /\ IdleCalls
  /\ fs \in {<<>>} \cup {(CONFIG.csv_file :> rows) : rows \in CsvFiles}
  /\ run = NotRun

NextFiles ==
  \/ ConvertToMermaid
  \/ AnalyzeRadFields
  \/ AnalyzeUniqueDataFieldsMain
  \/ GenerateDataDictionaryMain
  \/ CreateDataSummaryMain
  \/ ConsolidatedDataListMain
  \/ VisualizeRadPatternsMain

SpecFiles == InitFiles /\ [][NextFiles]_vars

\* ------------------------------------------------------------------ claims

\* The i-th argument and result of the normalizer applied in this run.
ArgumentAt(i) == IF i = 1 THEN n_raw ELSE n_hist[i - 1]

\* C1: for every raw field that is a key of the static table of the normalizer
\* applied (deep_mappings for normalize_field_deeply, normalizations for
\* normalize_field_path), every further application gives the result of the first.
C1_NormalizationIdempotentOnKeys ==
  /\ (n_fn = "deep" /\ n_raw \in Keys(deep_mappings))
        => \A i \in 2..Len(n_hist) : n_hist[i] = n_hist[1]
  /\ (n_fn = "path" /\ n_raw \in Keys(normalizations))
        => \A i \in 2..Len(n_hist) : n_hist[i] = n_hist[1]

\* A table key that the first application changed has been normalized twice.
C1_Witness ==
  /\ n_fn = "deep"
  /\ n_raw = "vnextAccount.account.paymentStatus"
  /\ Len(n_hist) = 2
  /\ n_hist[1] = "billing.paymentStatus"

\* The four namespace prefixes of the fallback and what replaces each.
StrippedPrefixes ==
  << <<"features.", "website.">>, <<"vnextAccount.", "">>,
     <<"wsbvnext.", "">>, <<"mktgasst.", "">> >>

IsClean(s) == Len(s) = 0 \/ (Char(s, 1) \notin Whitespace \cup QuoteChars
                             /\ Char(s, Len(s)) \notin Whitespace \cup QuoteChars)

\* What C2 says normalize_field_deeply returns for a quote-stripped path x.
C2_Expected(x, result) ==
  IF \E i \in 1..Len(deep_mappings) : deep_mappings[i][1] = x
  THEN \E i \in 1..Len(deep_mappings) : deep_mappings[i][1] = x /\ result = deep_mappings[i][2]
  ELSE IF \E p \in 1..Len(StrippedPrefixes) :
             \E rest \in {SliceFrom(x, Len(StrippedPrefixes[p][1]))} :
               x = StrippedPrefixes[p][1] \o rest
       THEN \E p \in 1..Len(StrippedPrefixes) :
             \E rest \in {SliceFrom(x, Len(StrippedPrefixes[p][1]))} :
               x = StrippedPrefixes[p][1] \o rest /\ result = StrippedPrefixes[p][2] \o rest
       ELSE result = x

\* C2: normalize_field_deeply maps a quote-stripped path to the table value on an
\* exact key match, else to the path with its one leading namespace prefix removed
\* ('features.' replaced by 'website.'), else to the path itself.
C2_DeepNormalizationOrder ==
  n_fn = "deep" =>
    \A i \in 1..Len(n_hist) :
      IsClean(ArgumentAt(i)) => C2_Expected(ArgumentAt(i), n_hist[i])

\* A key that also carries a strippable prefix went through the table, and the
\* result, which has an unseen prefix, passed through unchanged.
C2_Witness ==
  /\ n_fn = "deep"
  /\ n_raw = "wsbvnext.accountId"
  /\ Len(n_hist) = 2
  /\ n_hist = <<"account.id", "account.id">>

\* The code blocks of the file's header blocks, in document order.
RECURSIVE BlockCodes(_)
BlockCodes(blocks) ==
  IF Len(blocks) = 0 THEN <<>>
  ELSE <<HeaderBlocks[Head(blocks)].code>> \o BlockCodes(Tail(blocks))

AllBlocksComplete == \A i \in 1..Len(d_blocks) : HeaderBlocks[d_blocks[i]].complete

\* The sections a parser returned are one per header, in document order.
OnePerHeader(parsed) ==
  /\ Len(parsed) = Len(d_blocks)
  /\ \A i \in 1..Len(parsed) : parsed[i][2] = BlockCodes(d_blocks)[i]

\* C3: when every header of the file is followed by a closed javascript fence,
\* parse_rad_file and parseSynthesizers both return exactly one section per header,
\* in document order, whatever text precedes the first header.
C3_OneSectionPerHeader ==
  AllBlocksComplete =>
    /\ p_py.ran => OnePerHeader(p_py.out)
    /\ p_js.ran => OnePerHeader(p_js.out)

\* The part of C3 that is about parse_rad_file alone.
C3_ParseRadFileOnePerHeader ==
  (AllBlocksComplete /\ p_py.ran) => OnePerHeader(p_py.out)

\* The literals of the entityPick list of the snippet, in source order.
ConstructLiterals == [k \in DOMAIN construct.items |-> PickLiterals[construct.items[k]]]

\* The raw 'field' of each record of a list of field accesses.
raw_of(records) == [i \in DOMAIN records |-> records[i].field]

\* The sample rule function of the round trip.
SampleSection == "entityPick(entity, ['accountId','entitlementData'])"

\* The raw fields of the whole analysis of the sample are accountId and entitlementData.
SampleRoundTrip ==
  (code = SampleSection /\ Len(results) = 1)
    => {results[1].field_accesses[i].field : i \in DOMAIN results[1].field_accesses}
         = {"accountId", "entitlementData"}

\* C4 as stated: extract_entity_pick_fields returns, for each complete entityPick
\* call of the code, one record per quoted literal of its list, in source order, the
\* raw field being the literal, and nothing else; and the sample section's analysis
\* has exactly the raw fields accountId and entitlementData.
C4_OneRecordPerLiteral ==
  /\ (extraction.ran /\ construct.closed)
        => raw_of(extraction.out) = ConstructLiterals \o Tails[construct.tail].fields
  /\ SampleRoundTrip

\* A literal that is not empty and holds none of the three quote characters and no
\* closing bracket that, whitespace apart, a closing parenthesis follows.
IsPlainLiteral(s) ==
  /\ s # ""
  /\ \A i \in 1..Len(s) :
       /\ Char(s, i) \notin QuoteChars
       /\ Char(s, i) = "]" => ~At(s, span(s, i, Whitespace), ")")

\* C4, amended: the same for lists whose literals are not empty and hold none of the
\* three quote characters and no ']' that, whitespace apart, a ')' follows.
C4_OneRecordPerPlainLiteral ==
  /\ (/\ extraction.ran
      /\ construct.closed
      /\ \A k \in DOMAIN ConstructLiterals : IsPlainLiteral(ConstructLiterals[k]))
        => /\ raw_of(extraction.out) = ConstructLiterals \o Tails[construct.tail].fields
           /\ \A i \in DOMAIN extraction.out : extraction.out[i].access_method = "entityPick"
  /\ SampleRoundTrip

\* The sample section has been extracted from and analysed as a whole.
C4_Witness ==
  /\ code = SampleSection
  /\ extraction.ran
  /\ raw_of(extraction.out) = <<"accountId", "entitlementData">>
  /\ Len(results) = 1
  /\ Len(results[1].field_accesses) = 2

\* The script whose output the state holds, "" before any has run.
script_run == IF out.ran THEN out.out.script ELSE ""

\* The field of the example of the keyword table.
BillingCommitment == "billing.commitment"

\* C5: in the output of each of the three scripts that have a 'Billing & Payments'
\* bucket, the category recorded for a field is the value of the script's categorizer
\* on that field alone, whatever was categorized before it, and 'billing.commitment'
\* is recorded in 'Billing & Payments'.
C5_CategoryIsFunctionOfField ==
  /\ script_run = "analyze_unique_data_fields" =>
       \A i \in DOMAIN out.out.rendered.all_fields :
         LET entry == out.out.rendered.all_fields[i]
         IN  /\ entry[2].category = categorize_field(entry[1])[1]
             /\ entry[1] = BillingCommitment => entry[2].category = "Billing & Payments"
  /\ script_run = "generate_data_dictionary" =>
       \A i \in DOMAIN out.out.rendered.data_dictionary :
         LET entry == out.out.rendered.data_dictionary[i]
         IN  /\ entry[2].category = _categorize_field(entry[1])
             /\ entry[1] = BillingCommitment => entry[2].category = "Billing & Payments"
  /\ (script_run = "create_data_summary" /\ out.out.rendered.raised = "") =>
       \A i \in DOMAIN out.out.rendered.field_categories :
         LET bucket == out.out.rendered.field_categories[i]
         IN  \A field \in bucket[2] :
               /\ bucket[1] = summary_category(field)
               /\ field = BillingCommitment => bucket[1] = "Billing & Payments"

\* The visual summary of a file whose second section is the billing check: the fields
\* of another section were categorized before 'billing.commitment'.
C5_Witness ==
  /\ script_run = "create_data_summary"
  /\ Len(synthesizers) = 2
  /\ synthesizers[1][1] = "published-site"
  /\ synthesizers[2][1] = "billing-check"
  /\ \E i \in DOMAIN out.out.rendered.field_categories :
       /\ out.out.rendered.field_categories[i][1] = "Billing & Payments"
       /\ BillingCommitment \in out.out.rendered.field_categories[i][2]

\* The buckets of a chain whose test holds, by position.
Matching(buckets) == {i \in DOMAIN buckets : buckets[i][2]}

\* The category of the earliest bucket whose test holds, else the default.
Earliest(buckets, default) ==
  IF Matching(buckets) = {} THEN default ELSE buckets[SetMin(Matching(buckets))][1]

\* C6: the data dictionary, the visual summary and the consolidated list each put
\* every field in exactly one category, the one of the earliest bucket of the chain
\* whose test holds for the field, and the default category when none holds.
C6_FirstMatchingBucket ==
  /\ script_run = "generate_data_dictionary" =>
       \A i \in DOMAIN out.out.rendered.data_dictionary :
         LET entry == out.out.rendered.data_dictionary[i]
         IN  /\ entry[2].category = Earliest(dictionary_buckets(entry[1]), "Other")
             /\ \A j \in DOMAIN out.out.rendered.data_dictionary :
                  out.out.rendered.data_dictionary[j][1] = entry[1] => j = i
  /\ (script_run = "create_data_summary" /\ out.out.rendered.raised = "") =>
       \A r \in DOMAIN out.out.rendered.most_common :
         LET field == out.out.rendered.most_common[r][1]
         IN  {out.out.rendered.field_categories[i][1] :
                i \in {j \in DOMAIN out.out.rendered.field_categories :
                         field \in out.out.rendered.field_categories[j][2]}}
               = {Earliest(summary_buckets(field), "Other Data")}
  /\ script_run = "consolidated_data_list" =>
       \A i \in DOMAIN out.out.rendered.sections :
         LET section == out.out.rendered.sections[i]
         IN  \A r \in DOMAIN section[3] :
               /\ section[1] = Earliest(consolidated_buckets(section[3][r][1]), "10. Other Data")
               /\ \A j \in DOMAIN out.out.rendered.sections :
                    \A q \in DOMAIN out.out.rendered.sections[j][3] :
                      out.out.rendered.sections[j][3][q][1] = section[3][r][1]
                        => (j = i /\ q = r)

\* The data dictionary holds 'account.paymentStatus', which has keywords of three
\* buckets, under the earliest of them.
C6_Witness ==
  /\ script_run = "generate_data_dictionary"
  /\ \E i \in DOMAIN out.out.rendered.data_dictionary :
       /\ out.out.rendered.data_dictionary[i][1] = "account.paymentStatus"
       /\ Cardinality(Matching(dictionary_buckets("account.paymentStatus"))) = 3
       /\ out.out.rendered.data_dictionary[i][2].category = "Identity & Authentication"

\* C7: on a file with no sections every report script renders its output without
\* raising.
C7_EmptyInputRenders ==
  (Len(synthesizers) = 0 /\ out.ran) => out.out.rendered.raised = ""

\* The positions <<section, record>> of the analysed records with a normalized path.
Found(field) ==
  {p \in UNION {{<<k, i>> : i \in DOMAIN results[k].field_accesses} : k \in DOMAIN results} :
     results[p[1]].field_accesses[p[2]].normalized = field}

\* C8: the field_accesses of an analysed section are the records of the three
\* heuristics one after the other, none removed, its all_fields are their normalized
\* paths as a set, and the report counts for a field one use per record: each of
\* the fields, or each of the 20 that most_used_fields keeps, is there once with
\* the number of its records.
C8_RecordsAreNotDeduplicated ==
  /\ \A k \in DOMAIN results :
       LET section == synthesizers[k][2]
       IN  /\ Len(results[k].field_accesses)
                = Len(extract_entity_pick_fields(section))
                  + Len(extract_direct_property_access(section))
                  + Len(extract_destructuring_patterns(section))
           /\ results[k].all_fields
                = {results[k].field_accesses[i].normalized :
                     i \in DOMAIN results[k].field_accesses}
  /\ report.ran =>
       LET most_used_fields == report.out.field_analysis.most_used_fields
           fields == UNION {results[k].all_fields : k \in DOMAIN results}
       IN  /\ Len(most_used_fields)
                = IF Cardinality(fields) < 20 THEN Cardinality(fields) ELSE 20
           /\ \A r1, r2 \in DOMAIN most_used_fields :
                most_used_fields[r1][1] = most_used_fields[r2][1] => r1 = r2
           /\ \A r \in DOMAIN most_used_fields :
                /\ most_used_fields[r][1] \in fields
                /\ most_used_fields[r][2] = Cardinality(Found(most_used_fields[r][1]))

\* The report of a file whose first section picks accountId twice and reads
\* features.published by entityPick and by direct access.
C8_Witness ==
  /\ report.ran
  /\ Len(results) >= 1
  /\ synthesizers[1][1] = "published-site"
  /\ Len(results[1].field_accesses) = 5
  /\ Cardinality(results[1].all_fields) = 3
  /\ \E r \in DOMAIN report.out.field_analysis.most_used_fields :
       /\ report.out.field_analysis.most_used_fields[r][1] = "features.published"
       /\ report.out.field_analysis.most_used_fields[r][2] >= 2

\* C9, for the entityPick list whose closing bracket is missing: the incomplete call
\* contributes no record, so the records returned are those of the complete calls in
\* the code after it.
C9_UnclosedListYieldsNoRecord ==
  (extraction.ran /\ ~construct.closed)
    => raw_of(extraction.out) = Tails[construct.tail].fields

\* The rows <<field, figure>> of a table are in non-increasing order of the figure.
NonIncreasing(rows) == \A i \in 1..(Len(rows) - 1) : rows[i][2] >= rows[i + 1][2]

\* C10: most_used_fields has at most 20 rows, and it, the Top 20 and per-category
\* tables of the unique-data report and the per-subcategory lists of the consolidated
\* list are each in non-increasing order of the figure shown.
C10_TablesSortedByShownFigure ==
  /\ report.ran =>
       /\ Len(report.out.field_analysis.most_used_fields) <= 20
       /\ NonIncreasing(report.out.field_analysis.most_used_fields)
  /\ script_run = "analyze_unique_data_fields" =>
       /\ NonIncreasing(out.out.rendered.report.top20)
       /\ \A i \in DOMAIN out.out.rendered.report.categories :
            NonIncreasing(out.out.rendered.report.categories[i][2])
  /\ script_run = "consolidated_data_list" =>
       \A i \in DOMAIN out.out.rendered.sections :
         NonIncreasing(out.out.rendered.sections[i][3])

\* C11: the attributes of an analyzer are those a new instance gets from the
\* sections it analysed itself, and its report is the report of those sections,
\* whatever the analyzer constructed before it analysed.
C11_ReportOfOwnSections ==
  /\ [results |-> results, all_fields |-> all_fields, entity_types |-> entity_types,
      field_variations |-> field_variations, field_by_entity |-> field_by_entity]
       = analyzer_after(SubSeq(synthesizers, 1, Len(results)))
  /\ report.ran => report.out = main_report(synthesizers)

\* The analyzer before this one picked three fields; this one analysed a section
\* that picks none, and its report counts no field.
C11_Witness ==
  /\ previous = <<SectionPool[2]>>
  /\ synthesizers = <<SectionPool[7]>>
  /\ report.ran
  /\ report.out.summary.total_synthesizers = 1
  /\ report.out.summary.total_unique_fields = 0

\* The characters of s are all in chars.
only(s, chars) == \A i \in 1..Len(s) : Char(s, i) \in chars

\* C14: extract_pure_graphql returns None for None and for the empty string; for
\* any other query the result is the query less a leading and a trailing part made
\* of whitespace and quote characters only, it has no whitespace at its ends, and
\* it is the query itself when the query has neither at its ends.
C14_OnlyEndsRemoved ==
  c_pure.ran =>
    IF c_query = None \/ c_query = Some("") THEN c_pure.out = None
    ELSE LET query == value(c_query)
             result == value(c_pure.out)
         IN  /\ c_pure.out # None
             /\ \E a \in 0..Len(query) :
                  /\ a + Len(result) <= Len(query)
                  /\ Slice(query, a, a + Len(result)) = result
                  /\ only(Slice(query, 0, a), Whitespace \cup PlainQuotes)
                  /\ only(SliceFrom(query, a + Len(result)), Whitespace \cup PlainQuotes)
             /\ result # "" => /\ Char(result, 1) \notin Whitespace
                                /\ Char(result, Len(result)) \notin Whitespace
             /\ (/\ Char(query, 1) \notin Whitespace \cup PlainQuotes
                 /\ Char(query, Len(query)) \notin Whitespace \cup PlainQuotes)
                  => result = query

\* A quoted, padded cell came back without its padding and quotes and with the
\* quotes, the template string and the newlines inside it.
C14_Witness ==
  /\ c_query = Some("\n  profile => {\n  return [\"test's\", ~template~];\r\n}'\n")
  /\ c_pure.ran
  /\ c_pure.out = Some("profile => {\n  return [\"test's\", ~template~];\r\n}")

\* The number of places of s where sub stands.
occurrences(s, sub) == Cardinality({i \in 0..(Len(s) - 1) : At(s, i, sub)})

\* C15: format_graphql_for_mermaid returns '' for None and for the empty string;
\* any other result has no newline, one '<br/>' for each newline of the input next
\* to those the input had, a backslash before every double quote, and whitespace
\* only as single spaces.
C15_FormattedForMermaid ==
  c_formatted.ran =>
    IF c_query = None \/ c_query = Some("") THEN c_formatted.out = ""
    ELSE LET graphql == value(c_query)
             formatted == c_formatted.out
         IN  /\ occurrences(formatted, "\n") = 0
             /\ occurrences(formatted, "<br/>")
                  = occurrences(graphql, "\n") + occurrences(graphql, "<br/>")
             /\ occurrences(formatted, "\"") = occurrences(graphql, "\"")
             /\ \A i \in 1..Len(formatted) :
                  /\ Char(formatted, i) = "\"" => (i > 1 /\ Char(formatted, i - 1) = "\\")
                  /\ Char(formatted, i) \in Whitespace =>
                       /\ Char(formatted, i) = " "
                       /\ i < Len(formatted) => Char(formatted, i + 1) \notin Whitespace

\* A cell with three newlines, a tab and a '<br/>' of its own was formatted.
C15_Witness ==
  /\ c_query = Some("a\n\n \t b<br/>c'\n")
  /\ c_formatted.ran
  /\ c_formatted.out = "a<br/><br/> b<br/>c'<br/>"

\* The last script run did not find its input file.
InputMissing == run.ran /\ ~run.out.found

\* The files a script writes.
OutputsOf(script) ==
  CASE script = "graphql-to-mermaid-python" -> {mermaid_file, alternative_file, simple_file}
    [] script = "analyze_rad_fields" -> {args.output}
    [] script = "analyze_unique_data_fields" -> {"unique-data-fields.md", "unique-data-fields.csv"}
    [] script = "generate_data_dictionary" -> {"rad-data-dictionary.md", "rad-data-dictionary.csv"}
    [] script = "create_data_summary" -> {"rad-data-visual-summary.md"}
    [] script = "consolidated_data_list" -> {"consolidated-data-fields.md"}
    [] script = "visualize_rad_patterns" -> {"rad-visualization-report.md"}

\* C12 as stated: every script whose input file does not exist, the converter
\* included, ends with the uncaught FileNotFoundError, a failing exit and no file
\* written.
C12_MissingInputRaises ==
  InputMissing =>
    /\ run.out.raised = "FileNotFoundError"
    /\ run.out.exit # 0
    /\ run.out.written = {}

\* C12, amended: the analyzer and the five report scripts end with the uncaught
\* FileNotFoundError, a failing exit and no file written when their input file
\* does not exist; the converter catches the error, prints 'Error: File not
\* found: ' and the name of the CSV file, writes no file and ends with exit
\* status 0.
C12_MissingInputRaisesButInConverter ==
  InputMissing =>
    /\ run.out.written = {}
    /\ run.out.script \in {"graphql-to-mermaid-python", "analyze_rad_fields"}
         => OutputsOf(run.out.script) \cap DOMAIN fs = {}
    /\ IF run.out.script = "graphql-to-mermaid-python"
       THEN /\ run.out.raised = ""
            /\ run.out.exit = 0
            /\ run.out.printed = "Error: File not found: " \o CONFIG.csv_file
       ELSE /\ run.out.raised = "FileNotFoundError"
            /\ run.out.exit = 1
            /\ run.out.printed = ""

\* The converter was run in a directory without the CSV file and ended with exit
\* status 0 and no file in the directory.
C12_Witness ==
  /\ InputMissing
  /\ run.out.script = "graphql-to-mermaid-python"
  /\ run.out.exit = 0
  /\ fs = <<>>

\* The converter ran last and found the CSV file.
Converted ==
  /\ run.ran
  /\ run.out.script = "graphql-to-mermaid-python"
  /\ run.out.found

\* The rows of the CSV file, and the indexes of those whose query cell is there and
\* is not empty once extract_pure_graphql cleaned it, in row order.
CsvRows == fs[CONFIG.csv_file]
HasQuery(row) ==
  /\ CONFIG.query_column \in DOMAIN row
  /\ row[CONFIG.query_column] \notin {None, Some("")}
  /\ extract_pure_graphql(row[CONFIG.query_column]) \notin {None, Some("")}
Entries == SelectSeq([i \in 1..Len(CsvRows) |-> i], LAMBDA i : HasQuery(CsvRows[i]))

\* The name an entry is shown under, and the title of its markdown section.
NameOf(i) ==
  IF CONFIG.rad_name_column \in DOMAIN CsvRows[i]
  THEN value(CsvRows[i][CONFIG.rad_name_column])
  ELSE "Query_" \o ToString(i)
TitleOf(i) ==
  IF /\ CONFIG.rad_id_column \in DOMAIN CsvRows[i]
     /\ CsvRows[i][CONFIG.rad_id_column] \notin {None, Some("")}
  THEN value(CsvRows[i][CONFIG.rad_id_column])
  ELSE NameOf(i)

\* The lines of a text that begin with a prefix, in the order of the text.
LinesWith(text, prefix) == SelectSeq(split(text, "\n"), LAMBDA line : startswith(line, prefix))

Accessors(field) ==
  {i \in DOMAIN results :
     \E k \in DOMAIN results[i].field_accesses :
       results[i].field_accesses[k].normalized = field}
DeepAccessors(field) ==
  {i \in DOMAIN results :
     \E k \in DOMAIN results[i].field_accesses :
       normalize_field_deeply(results[i].field_accesses[k].normalized) = field}

\* The number of synthesizers, told apart by their names, that access a field.
Users(field) == Cardinality({results[i].name : i \in Accessors(field)})
DeepUsers(field) == Cardinality({results[i].name : i \in DeepAccessors(field)})

\* C13: the 'Used by' figure of every row of the unique-data report and of every
\* row of the data dictionary is the number of synthesizers that access the field,
\* however often each of them does.
C13_UsedByCountsSynthesizers ==
  /\ script_run = "analyze_unique_data_fields" =>
       /\ \A i \in DOMAIN out.out.rendered.report.top20 :
            out.out.rendered.report.top20[i][2] = DeepUsers(out.out.rendered.report.top20[i][1])
       /\ \A i \in DOMAIN out.out.rendered.report.categories :
            \A j \in DOMAIN out.out.rendered.report.categories[i][2] :
              out.out.rendered.report.categories[i][2][j][2]
                = DeepUsers(out.out.rendered.report.categories[i][2][j][1])
  /\ script_run = "generate_data_dictionary" =>
       \A i \in DOMAIN out.out.rendered.dictionary :
         \A j \in DOMAIN out.out.rendered.dictionary[i][2] :
           out.out.rendered.dictionary[i][2][j][2]
             = Users(out.out.rendered.dictionary[i][2][j][1])

\* The figures of a counter, added up.
Total(counter) == sum([i \in DOMAIN counter |-> counter[i][2]])

\* C17: the report gives the number of analyze_synthesizer calls as
\* total_synthesizers; the counts of complexity_distribution and those of
\* return_patterns each add up to it, and the counts of access_methods add up to
\* the number of field-access records of all results.
C17_ReportTotals ==
  report.ran =>
    /\ report.out.summary.total_synthesizers = Len(results)
    /\ Len(results) = Len(synthesizers)
    /\ Total(report.out.summary.complexity_distribution) = Len(results)
    /\ Total(report.out.summary.return_patterns) = Len(results)
    /\ Total(report.out.field_analysis.access_methods)
         = sum([i \in DOMAIN results |-> Len(results[i].field_accesses)])

\* Two synthesizers of the same complexity level were analysed, with accesses of
\* more than one method, one of them made twice.
C17_Witness ==
  /\ report.ran
  /\ Len(results) = 2
  /\ \E i \in DOMAIN report.out.summary.complexity_distribution :
       report.out.summary.complexity_distribution[i][2] = 2
  /\ Len(report.out.field_analysis.access_methods) > 1
  /\ \E i \in DOMAIN report.out.field_analysis.access_methods :
       report.out.field_analysis.access_methods[i][2] > 2

\* C18: total_unique_fields of the report is the number of distinct normalized
\* paths in the field_accesses of the analysed synthesizers.
C18_UniqueFieldsOfAllAccesses ==
  report.ran =>
    report.out.summary.total_unique_fields
      = Cardinality(UNION {{results[i].field_accesses[k].normalized :
                              k \in DOMAIN results[i].field_accesses} :
                           i \in DOMAIN results})

\* C19: the total of the visualization report is the number of field-access
\* records of all synthesizers of the report.
C19_TotalOfAllAccesses ==
  script_run = "visualize_rad_patterns" =>
    out.out.rendered.total_field_accesses
      = sum([i \in DOMAIN results |-> Len(results[i].field_accesses)])

\* C20: the fields listed as critical are the fields that more than half of the
\* synthesizers of the report access.
C20_CriticalIffMoreThanHalf ==
  (script_run = "create_data_summary" /\ out.out.rendered.raised = "") =>
    out.out.rendered.critical_fields
      = {field \in UNION {{results[i].field_accesses[k].normalized :
                             k \in DOMAIN results[i].field_accesses} :
                          i \in DOMAIN results} :
           2 * Cardinality(Accessors(field)) > Len(results)}

\* C21: the 'Total Synthesizers' figure of the unique-data report is the number of
\* synthesizers in synthesizer_details of the JSON report that analyze_report read,
\* those without field accesses included.
C21_TotalSynthesizersOfReport ==
  script_run = "analyze_unique_data_fields" =>
    out.out.rendered.report.total_synthesizers = Len(JsonReport.synthesizer_details)

\* C22: for every access whose raw field is a key of the table of
\* normalize_field_deeply, the path under which analyze_report files it, which is
\* normalize_field_deeply applied to the stage-1 result of normalize_field_path, is
\* the canonical path normalize_field_deeply gives for the raw field.
C22_StagesAgree ==
  script_run = "analyze_unique_data_fields" =>
    \A i \in DOMAIN results :
      \A k \in DOMAIN results[i].field_accesses :
        results[i].field_accesses[k].field \in Keys(deep_mappings) =>
          \E j \in DOMAIN out.out.rendered.all_fields :
            /\ out.out.rendered.all_fields[j][1]
                 = normalize_field_deeply(results[i].field_accesses[k].field)
            /\ results[i].field_accesses[k].field
                 \in out.out.rendered.all_fields[j][2].raw_variations

\* The positions of the comparisons  <subject>.type === '<T>'  in the code, and the
\* literal <T> and the end of the comparison at such a position.
TypeComparisons(subject) ==
  {i \in 0..(Len(code) - 1) :
     At(code, i, subject \o ".type") /\ type_comparison(code, i + Len(subject) + 5).ok}
LiteralAt(subject, i) == type_comparison(code, i + Len(subject) + 5).lit
EndAt(subject, i) == type_comparison(code, i + Len(subject) + 5).end

\* The comparisons of entity.type that the text of the variable name follows.
FollowedBy(entity_var) ==
  {i \in TypeComparisons("entity") : find(code, entity_var, EndAt("entity", i)) # -1}

\* What C23 says _infer_entity_type returns for the code and a variable name.
C23_Expected(entity_var, result) ==
  /\ result # ""
  /\ IF FollowedBy(entity_var) # {}
     THEN \E i \in FollowedBy(entity_var) :
            /\ \A j \in FollowedBy(entity_var) : i <= j
            /\ result = LiteralAt("entity", i)
     ELSE IF TypeComparisons(entity_var) # {}
     THEN \E i \in TypeComparisons(entity_var) :
            /\ \A j \in TypeComparisons(entity_var) : i <= j
            /\ result = LiteralAt(entity_var, i)
     ELSE IF contains(lower(entity_var), "wsbv") THEN result = "wsbvnext"
     ELSE IF contains(lower(entity_var), "mktg") THEN result = "mktgasst"
     ELSE IF contains(lower(entity_var), "uce") THEN result = "uce"
     ELSE result = "unknown"

\* The entityPick records of a list of field accesses.
PickRecords(records) == SelectSeq(records, LAMBDA a : a.access_method = "entityPick")

\* The records of the section's two calls: two of the first variable, one of the second.
C23_Typed(records) ==
  /\ Len(records) = 3
  /\ C23_Expected(EntityVars[construct.first], records[1].entity_type)
  /\ records[2].entity_type = records[1].entity_type
  /\ C23_Expected(EntityVars[construct.second], records[3].entity_type)
  /\ construct.first = construct.second => records[3].entity_type = records[1].entity_type

\* C23: the entity type of a field picked from a variable is the literal of the first
\* comparison of entity.type in the code that the variable name follows; else the
\* literal of the first comparison of <variable>.type; else 'wsbvnext', 'mktgasst' or
\* 'uce' when the lower-cased name contains 'wsbv', 'mktg' or 'uce', tried in that
\* order; else 'unknown'. It is never empty, and the fields picked from one variable
\* name in one section all get the same type.
C23_EntityTypePriority ==
  /\ extraction.ran => C23_Typed(extraction.out)
  /\ Len(results) = 1 => C23_Typed(PickRecords(results[1].field_accesses))

\* A section whose first variable is typed by the comparison of entity.type that its
\* name follows, though its own type is compared earlier, and whose second, named
\* after wsbvnext, by the comparison of its own type.
C23_Witness ==
  /\ extraction.ran
  /\ Len(results) = 1
  /\ EntityVars[construct.first] = "site"
  /\ EntityVars[construct.second] = "wsbvSite"
  /\ construct.prelude = 3
  /\ construct.epilogue = 3
  /\ extraction.out[1].entity_type = "late"
  /\ extraction.out[3].entity_type = "appt"

\* 1 for a term that contributes, 0 for one that does not.
Indicator(contributes) == IF contributes THEN 1 ELSE 0

\* The five terms of the score of the analysis, by the name of their factor.
Contributes ==
  [uses_join_entities |-> c_analysis.join_info.uses_join,
   many_fields |-> Cardinality(c_analysis.all_fields) > 10,
   multiple_entities |-> Cardinality(c_analysis.entity_types) > 1,
   long_code |-> c_analysis.code_length > 1000,
   complex_conditions |-> c_analysis.conditional_logic]

\* C24: the score is 3 for a join, 2 for more than 10 distinct fields, 2 for more
\* than one entity type, 2 for code longer than 1000 and 1 for conditional logic,
\* added up, so it lies in 0..10; factors has exactly one entry per contributing
\* term; the level is simple up to 2, medium from 3 to 5 and complex from 6 on.
C24_ComplexityScore ==
  c_complexity.ran =>
    LET score == c_complexity.out.score
        level == c_complexity.out.level
        factors == c_complexity.out.factors
    IN  /\ score = 3 * Indicator(Contributes.uses_join_entities)
                     + 2 * Indicator(Contributes.many_fields)
                     + 2 * Indicator(Contributes.multiple_entities)
                     + 2 * Indicator(Contributes.long_code)
                     + 1 * Indicator(Contributes.complex_conditions)
        /\ score \in 0..10
        /\ \A name \in DOMAIN Contributes :
             Cardinality({i \in DOMAIN factors : factors[i] = name})
               = Indicator(Contributes[name])
        /\ \A i \in DOMAIN factors : factors[i] \in DOMAIN Contributes
        /\ level \in {"simple", "medium", "complex"}
        /\ level = "simple" <=> score <= 2
        /\ level = "medium" <=> (3 <= score /\ score <= 5)
        /\ level = "complex" <=> score >= 6

\* An analysis at the upper edge of medium has been scored: a join and 11 fields,
\* with one entity type and a code length of 1000, which add nothing.
C24_Witness ==
  /\ c_complexity.ran
  /\ c_analysis.join_info.uses_join
  /\ Cardinality(c_analysis.all_fields) = 11
  /\ Cardinality(c_analysis.entity_types) = 1
  /\ c_analysis.code_length = 1000
  /\ ~c_analysis.conditional_logic
  /\ c_complexity.out = [score |-> 5, level |-> "medium",
                         factors |-> <<"uses_join_entities", "many_fields">>]

\* The pattern groups the report script rendered: the six of
\* generate_synthesizer_patterns or the four of generate_synthesizer_requirements;
\* none when another script ran, or none yet.
Groups ==
  IF script_run = "visualize_rad_patterns" THEN out.out.rendered.patterns
  ELSE IF script_run = "generate_data_dictionary" THEN out.out.rendered.requirements
  ELSE <<>>

\* The names in the group of the given label, and the group of complex synthesizers.
GroupOf(label) == Groups[index_of(Groups, label)][2]
ComplexGroup ==
  IF script_run = "visualize_rad_patterns" THEN GroupOf("complex_logic")
  ELSE GroupOf("Complex Logic")
StaticGroup ==
  IF script_run = "visualize_rad_patterns" THEN GroupOf("static_return")
  ELSE GroupOf("Static/Empty Return")

\* How often a value occurs in a list.
count(list, v) == Cardinality({i \in DOMAIN list : list[i] = v})

\* C25: in the groups of generate_synthesizer_patterns as in those of
\* generate_synthesizer_requirements, a synthesizer whose return pattern is not
\* empty_array, static_none or venture_based and that does not use joinEntities is
\* in the group of complex logic exactly when its complexity level is 'complex'.
C25_ComplexInBothReports ==
  script_run \in {"visualize_rad_patterns", "generate_data_dictionary"} =>
    \A i \in DOMAIN JsonReport.synthesizer_details :
      LET synth == JsonReport.synthesizer_details[i]
      IN  (/\ synth.return_pattern.type \notin {"empty_array", "static_none", "venture_based"}
           /\ ~synth.join_info.uses_join)
            => (count(ComplexGroup, synth.name) > 0 <=> synth.complexity.level = "complex")

\* C26: each of the two generators places every synthesizer of the report in exactly
\* one group, so the sizes of the groups add up to the number of synthesizers; and a
\* synthesizer whose return pattern is empty_array or static_none is in the group of
\* static returns, whatever its join and its score.
C26_OneGroupEach ==
  script_run \in {"visualize_rad_patterns", "generate_data_dictionary"} =>
    LET details == JsonReport.synthesizer_details
        names == [i \in DOMAIN details |-> details[i].name]
        placed == chain([g \in DOMAIN Groups |-> Groups[g][2]])
    IN  /\ Len(placed) = Len(details)
        /\ \A i \in DOMAIN details : count(placed, names[i]) = count(names, names[i])
        /\ \A i \in DOMAIN details :
             details[i].return_pattern.type \in {"empty_array", "static_none"}
               => count(StaticGroup, names[i]) = count(names, names[i])

\* The pattern report of a file with a section that returns [] before it joins, of
\* score 6, and a section of another group: each is in one group, the first in the
\* static returns.
C26_Witness ==
  /\ script_run = "visualize_rad_patterns"
  /\ Len(JsonReport.synthesizer_details) = 2
  /\ JsonReport.synthesizer_details[1].name = "guarded-join"
  /\ JsonReport.synthesizer_details[1].join_info.uses_join
  /\ JsonReport.synthesizer_details[1].complexity.score = 6
  /\ JsonReport.synthesizer_details[2].name = "site-digest"
  /\ GroupOf("static_return") = <<"guarded-join">>
  /\ GroupOf("entity_join") = <<>>
  /\ GroupOf("complex_logic") = <<"site-digest">>

\* The patterns that a return statement of the rule matches.
Matched ==
  ReturnStatements[construct.first].matches
  \cup (IF construct.second = 0 THEN {} ELSE ReturnStatements[construct.second].matches)

\* C27: analyze_return_pattern gives the first type, in the order empty_array,
\* static_none, spread_operator, venture_based, that a return statement of the code
\* matches, and dynamic when none does; code that contains the text 'return []' is
\* empty_array whatever else it returns; the 'dynamic' flag is False exactly for
\* empty_array and static_none.
C27_FirstMatchingReturnPattern ==
  Len(results) = 1 =>
    LET pattern == results[1].return_pattern
        order == <<"empty_array", "static_none", "spread_operator", "venture_based">>
    IN  /\ IF Matched = {} THEN pattern.type = "dynamic"
           ELSE \E k \in DOMAIN order :
                  /\ order[k] \in Matched
                  /\ \A j \in 1..(k - 1) : order[j] \notin Matched
                  /\ pattern.type = order[k]
        /\ contains(code, "return []") => pattern.type = "empty_array"
        /\ pattern.dynamic = FALSE <=> pattern.type \in {"empty_array", "static_none"}
        /\ pattern.dynamic \in BOOLEAN

\* A rule that returns a spread object with a ventureId and, after it, 'return []'
\* has been analysed: it is empty_array and not dynamic.
C27_Witness ==
  /\ Len(results) = 1
  /\ construct.first = 6
  /\ construct.second = 1
  /\ contains(code, "return [{ ...entityData[0], ventureId }]\nelse return []")
  /\ results[1].return_pattern = [type |-> "empty_array", dynamic |-> FALSE]

\* The entries of the table of normalize_field_path whose key the field starts with.
MatchingPrefixes(field) ==
  {i \in DOMAIN normalizations :
     Len(normalizations[i][1]) <= Len(field)
     /\ SubSeq(field, 1, Len(normalizations[i][1])) = normalizations[i][1]}

\* The variations kept under a key, none when the key was never touched.
VariationsOf(fv, key) == IF key \in DOMAIN fv THEN fv[key] ELSE {}

\* What C28 says one call of normalize_field_path does, given its argument with
\* padding and quotes stripped.
C28_Step(field) ==
  /\ UNCHANGED <<results, all_fields, entity_types>>
  /\ IF MatchingPrefixes(field) = {}
     THEN /\ n_hist'[Len(n_hist')] = field
          /\ UNCHANGED field_variations
     ELSE \E i \in MatchingPrefixes(field) :
            /\ \A j \in MatchingPrefixes(field) : i <= j
            /\ n_hist'[Len(n_hist')]
                 = normalizations[i][2]
                   \o SubSeq(field, Len(normalizations[i][1]) + 1, Len(field))
            /\ DOMAIN field_variations' = DOMAIN field_variations \cup {normalizations[i][2]}
            /\ field_variations'[normalizations[i][2]]
                 = VariationsOf(field_variations, normalizations[i][2]) \cup {field}
            /\ \A key \in DOMAIN field_variations :
                 key # normalizations[i][2] => field_variations'[key] = field_variations[key]

\* C28: a call of normalize_field_path whose stripped argument starts with a prefix
\* of the table returns the argument with the first such prefix, in table order,
\* replaced at its start, and adds the stripped argument to the variations of the
\* replacement and to nothing else; a call whose argument starts with none returns
\* the stripped argument and leaves field_variations, results, all_fields and
\* entity_types as they were.
C28_NormalizeFieldPathFrame ==
  [][(n_fn' = "path" /\ Len(n_hist') = Len(n_hist) + 1)
       => C28_Step(strip(strip(NextArgument, Whitespace), QuoteChars))]_vars

\* A quoted field under a prefix of the table has been normalized, which filed it,
\* stripped, under the replacement; the result, which starts with no prefix of the
\* table, has been normalized again, which changed nothing.
C28_Witness ==
  /\ n_fn = "path"
  /\ n_raw = "~gem.hasSent~"
  /\ n_hist = <<"email.hasSent", "email.hasSent">>
  /\ DOMAIN field_variations = {"email.hasSent"}
  /\ field_variations["email.hasSent"] = {"gem.hasSent"}
  /\ results = <<>>
  /\ all_fields = {}

\* The cleaned query of a row.
CleanedQuery(i) == value(extract_pure_graphql(CsvRows[i][CONFIG.query_column]))

\* C29: parse_rad_file applied to the markdown file of a conversion returns, in row
\* order, one (title, code) pair for each row with a query that is not empty after
\* the cleanup, the title being the row's RAD id, or its name when the id is empty,
\* and the code the cleaned query; for rows whose cleaned query holds neither '## '
\* nor a fence of three grave accents.
C29_SimpleMarkdownParsesBack ==
  (/\ Converted
   /\ \A k \in DOMAIN Entries :
        /\ ~contains(CleanedQuery(Entries[k]), "## ")
        /\ ~contains(CleanedQuery(Entries[k]), FenceClose))
    => parse_rad_file(fs[simple_file])
         = [k \in DOMAIN Entries |-> <<TitleOf(Entries[k]), CleanedQuery(Entries[k])>>]

====
